---- MODULE Spec2Model ----
(***************************************************************************)
(* A model of faceoff: the caching NHL API client (api/client.py) and the  *)
(* refresh timers, fetch workers and resize handlers of its screens        *)
(* (screens/schedule.py, screens/game.py, screens/teams.py).               *)
(*                                                                         *)
(* Time is the wall clock in whole seconds (datetime.now().timestamp()).   *)
(***************************************************************************)
EXTENDS Integers, Sequences, FiniteSets, TLC

VARIABLES
    now,        \* the wall clock, in seconds
    cache,      \* NHLClient._cache: url -> <<cached_time, cached_data>>
    issued,     \* history: url -> <<time, data>> of the last successful
                \* network response for url since the last clear_cache
    last,       \* history: what the last call on the client did
    sched,      \* the ScheduleScreen the application root pushed
    game,       \* the GameScreen pushed last
    teams,      \* the TeamsScreen pushed last
    stack,      \* the application's screen stack, the active screen last
    workers,    \* the fetch routines run_worker has scheduled, oldest first
    width,      \* the width the active screen's content container has
    ev,         \* history: the last event a screen handled
    run,        \* history: the last run of a fetch routine
    keys,       \* history: how many key presses the user has made
    standings,  \* the StandingsScreen pushed last
    clients,    \* every NHLClient object created, in order of creation, as
                \* its _cache; an object is referred to by its index
    app         \* the FaceoffApp, with the screens it has pushed, each as
                \* an object that holds a reference to a client

clientVars == <<now, cache, issued, last>>

\* the objects of the specifications of the StandingsScreen and of the
\* navigation between screens; the other specifications are about one
\* client, whose cache is the variable cache, and leave these alone
navVars == <<standings, clients, app>>

screenVars ==
    <<sched, game, teams, stack, workers, width, ev, run, keys, navVars>>

vars == <<now, cache, issued, last, sched, game, teams, stack, workers,
          width, ev, run, keys, standings, clients, app>>

-----------------------------------------------------------------------------
(* Bounds of the model *)

\* the clock of the client specification runs from 0 to MaxClock
MaxClock == 12

\* the clock of the application specification runs from 0 to MaxTime
MaxTime == 31

\* the user presses at most MaxKeys keys
MaxKeys == 2

\* the methods of the client are called on a cache of at most MaxEntries
\* entries, that of the url called included
MaxEntries == 1

\* and until the clock reads MaxMethodClock, past the longer time to live
MaxMethodClock == 31

\* in the navigation between screens a cache holds at most MaxNavEntries
\* entries and at most MaxNavQueue fetch routines are scheduled
MaxNavEntries == 3

MaxNavQueue == 1

\* the StandingsScreen is between MinStandingsWidth and MaxStandingsWidth
\* columns wide, on both sides of its breakpoint
MinStandingsWidth == 146

MaxStandingsWidth == 153

\* the handlers taken as functions of the screen schedule at most MaxQueue
\* fetch routines
MaxQueue == 1

\* keys are pressed at the seconds that are multiples of KeyEvery
KeyEvery == 18

\* the schedule is browsed at most MaxDays days before or after today
MaxDays == 1

\* a network request blocks its caller for 0..MaxLatency seconds
MaxLatency == 1

\* the feed answers a request with one of the payloads 1..NumPayloads
NumPayloads == 2

\* the content width of a screen is one of MinWidth..MaxWidth columns
MinWidth == 76

MaxWidth == 106

-----------------------------------------------------------------------------
(* api/client.py *)

BASE_URL == "https://api-web.nhle.com/v1"

\* NHLClient._cache_ttl, the default ttl
DefaultTtl == 30

\* the ttl the live endpoints pass as cache_ttl
LiveTtl == 10

\* an optional argument: <<>> is None, <<v>> is the value v
None == <<>>

Some(v) == <<v>>

\* url = f"{self.BASE_URL}{endpoint}"
Url(endpoint) == BASE_URL \o endpoint

\* a mutant of Ttl: an override once given has become the default
Ttl_always_live(cache_ttl) == LiveTtl

\* ttl = cache_ttl if cache_ttl is not None else self._cache_ttl
Ttl(cache_ttl) == IF cache_ttl # None THEN cache_ttl[1] ELSE DefaultTtl

\* a mutant of IsFresh: the comparison is the wrong way round
IsFresh_inverted(c, url, ttl, t) ==
    /\ url \in DOMAIN c
    /\ t - c[url][1] > ttl

\* a mutant of IsFresh: an entry of age exactly ttl still counts as fresh
IsFresh_inclusive(c, url, ttl, t) ==
    /\ url \in DOMAIN c
    /\ t - c[url][1] <= ttl

\* the cache check: url in self._cache and now - cached_time < ttl
IsFresh(c, url, ttl, t) ==
    /\ url \in DOMAIN c
    /\ t - c[url][1] < ttl

\* a mutant of Store: an entry already there is kept
Store_keeps_entry(c, url, t, data) ==
    IF url \in DOMAIN c THEN c
    ELSE [u \in DOMAIN c \cup {url} |-> IF u = url THEN <<t, data>> ELSE c[u]]

\* self._cache[url] = (datetime.now().timestamp(), data)
Store(c, url, t, data) ==
    [u \in DOMAIN c \cup {url} |-> IF u = url THEN <<t, data>> ELSE c[u]]

\* what the feed may answer: a payload, or a failure (a transport error or a
\* non-success status, which raise_for_status turns into an exception)
Responses ==
    [ok : {TRUE}, data : 1..NumPayloads] \cup [ok : {FALSE}, data : {0}]

\* what the feed may answer the three requests of one run of GameScreen's
\* fetch routine: the requests that succeed carry the same payload
GameResponses ==
    {rs \in Responses \X Responses \X Responses :
        \A i, j \in 1..3 : (rs[i].ok /\ rs[j].ok) => rs[i].data = rs[j].data}

\* a mutant of OnFailure: a failed request drops the entry of its url
OnFailure_drops(c, url) == [u \in DOMAIN c \ {url} |-> c[u]]

\* the cache after self._http.get or raise_for_status raised: the exception
\* leaves _get before the cache update
OnFailure(c, url) == c

\* NHLClient._get called at time t, the feed answering resp after d seconds:
\* the cache it leaves, how it ended, the value returned, the time it ended
ClientGet(c, endpoint, cache_ttl, t, resp, d) ==
    LET url == Url(endpoint)
        ttl == Ttl(cache_ttl)
    IN  IF IsFresh(c, url, ttl, t)
        THEN [cache |-> c, outcome |-> "cached", value |-> c[url][2],
              done |-> t, url |-> url, ttl |-> ttl]
        ELSE IF ~resp.ok
        THEN [cache |-> OnFailure(c, url), outcome |-> "error", value |-> 0,
              done |-> t + d, url |-> url, ttl |-> ttl]
        ELSE [cache |-> Store(c, url, t + d, resp.data),
              outcome |-> "fetched", value |-> resp.data, done |-> t + d,
              url |-> url, ttl |-> ttl]

\* a mutant of ClearedCache: only the entries older than the default ttl go
ClearedCache_stale_only(c, t) ==
    [u \in {v \in DOMAIN c : t - c[v][1] < DefaultTtl} |-> c[u]]

\* self._cache.clear()
ClearedCache(c, t) == << >>

-----------------------------------------------------------------------------
(* State of the screens *)

\* ScheduleScreen.REFRESH_INTERVAL and GameScreen.REFRESH_INTERVAL
REFRESH_INTERVAL == 30

\* the period of the refresh timer: set_interval(30, ...)
REFRESH_PERIOD == 30

\* the period of the countdown timer: set_interval(1, ...)
COUNTDOWN_PERIOD == 1

\* the padding _get_cards_per_row takes off the container width
ROW_PADDING == 4

\* schedule.py: game card width (28) + margin (1)
CARD_WIDTH == 29

\* teams.py: team card width (12) + margin (1)
TEAM_CARD_WIDTH == 13

\* game.py, on_resize: the width change that makes GameScreen lay out again
GAME_RESIZE_DELTA == 20

\* game.py: minimum width for the side-by-side layout
WIDE_LAYOUT_MIN_WIDTH == 100

\* get_nhl_today(): dates are counted in days from today
Today == 0

\* an empty list or dict: games = [], boxscore = {}
NoData == 0

\* a timer handle that is still None
NoTimer ==
    [set |-> FALSE, active |-> FALSE, due |-> 0, interval |-> 0, start |-> 0]

\* set_interval(interval, callback) called at time t: a repeating timer that
\* first fires interval seconds later
SetInterval(interval, t) ==
    [set |-> TRUE, active |-> TRUE, due |-> t + interval,
     interval |-> interval, start |-> t]

\* a mutant of StopTimer: stop() on a stopped timer starts it again
StopTimer_toggles(timer) ==
    IF timer.set THEN [timer EXCEPT !.active = ~timer.active] ELSE timer

\* a mutant of StopTimer: stop() is never reached
StopTimer_skipped(timer) == timer

\* if self._timer: self._timer.stop()
StopTimer(timer) ==
    IF timer.set THEN [timer EXCEPT !.active = FALSE] ELSE timer

\* f"Refreshing in {self._countdown}s"
RefreshingIn(countdown) == <<"Refreshing in", countdown>>

\* ScheduleScreen.__init__
NewScheduleScreen ==
    [state |-> "new", current_date |-> Today, games |-> NoData,
     refresh_timer |-> NoTimer, countdown_timer |-> NoTimer,
     countdown |-> REFRESH_INTERVAL, last_width |-> 0, sub_title |-> <<>>,
     per_row |-> 0]

\* GameScreen.__init__ with the game_data of the selected card
NewGameScreen(game_state) ==
    [state |-> "new", game_state |-> game_state, boxscore |-> NoData,
     play_by_play |-> NoData, scoring_summary |-> NoData,
     refresh_timer |-> NoTimer, countdown_timer |-> NoTimer,
     countdown |-> REFRESH_INTERVAL, last_width |-> 0, sub_title |-> <<>>,
     layout |-> "none"]

\* TeamsScreen.__init__
NewTeamsScreen ==
    [state |-> "new", teams |-> NoData, last_width |-> 0, per_row |-> 0]

\* StandingsScreen.__init__; layout is how the views were last rendered
NewStandingsScreen ==
    [state |-> "new", standings |-> NoData, last_width |-> 0,
     layout |-> "none"]

\* the FaceoffApp before __init__: no client, no screen pushed
NoApp == [client |-> 0, screen_stack |-> << >>]

\* a fetch routine handed to run_worker by the handler `by` at time t
Worker(screen, by, t) == [screen |-> screen, by |-> by, at |-> t]

\* the last event: for a resize, the screen's _last_width before it
\* (anchor), the width of its last relayout before it (relaid_before),
\* whether the handler got as far as comparing widths (handled), whether it
\* laid out again (relayout) and whether the width moved by less than the
\* screen's threshold since the event before (small_step); relaid is the
\* width of each screen's last relayout, 0 before the first; for a timer
\* callback or a key, whether it left the cache as it was (cache_same), how
\* many entries the cache held and how many routines were scheduled before
\* it (entries, queued), and the countdown before it (countdown); for a
\* refresh, whether the other kind of refresh, manual for automatic and
\* automatic for manual, would have left the same countdown and cache and
\* had the same requests issued (converges); for a timer callback, the
\* time at which its timer was due (due); and the time at which the
\* refresh timer of the screen was due before it (refresh_due)
NoEvent ==
    [kind |-> "none", screen |-> "", anchor |-> 0, new_width |-> 0,
     handled |-> FALSE, relayout |-> FALSE, small_step |-> FALSE,
     relaid_before |-> 0,
     relaid |-> [schedule |-> 0, game |-> 0, teams |-> 0],
     cache_same |-> TRUE, entries |-> 0, queued |-> 0, countdown |-> 0,
     converges |-> TRUE, due |-> 0, refresh_due |-> 0]

\* no event is being handled; the widths of the last relayouts are kept
Idle(e) == [NoEvent EXCEPT !.relaid = e.relaid]

NoRun == [screen |-> "", by |-> "", at |-> 0, reqs |-> <<>>, ok |-> FALSE]

Abs(x) == IF x < 0 THEN -x ELSE x

Max(a, b) == IF a >= b THEN a ELSE b

Widths == MinWidth..MaxWidth

Top == IF stack = <<>> THEN "" ELSE stack[Len(stack)]

\* the ScheduleScreen or the GameScreen, by name
ScreenOf(name) == IF name = "schedule" THEN sched ELSE game

\* the objects of navigation where they are not followed
InitNav ==
    /\ standings = NewStandingsScreen
    /\ clients = << >>
    /\ app = NoApp

\* the state after the application root built its client and before it is
\* mounted: no screen is on the stack
InitScreens ==
    /\ sched = NewScheduleScreen
    /\ game = NewGameScreen("FINAL")
    /\ teams = NewTeamsScreen
    /\ stack = <<>>
    /\ workers = <<>>
    /\ ev = NoEvent
    /\ run = NoRun
    /\ keys = 0
    /\ InitNav

-----------------------------------------------------------------------------
(* screens/schedule.py *)

\* ScheduleScreen._update_subtitle: the countdown is shown only for today
ScheduleUpdateSubtitle(sc) ==
    [sc EXCEPT !.sub_title = IF sc.current_date = Today
                             THEN RefreshingIn(sc.countdown)
                             ELSE <<>>]

\* ScheduleScreen.load_games: run_worker(self._fetch_games())
ScheduleLoadGames(ws, by, t) == Append(ws, Worker("schedule", by, t))

\* ScheduleScreen.on_mount
ScheduleOnMount(sc, ws, t) ==
    [screen |-> ScheduleUpdateSubtitle(
                    [sc EXCEPT !.state = "mounted",
                               !.countdown = REFRESH_INTERVAL,
                               !.refresh_timer = SetInterval(REFRESH_PERIOD, t),
                               !.countdown_timer =
                                   SetInterval(COUNTDOWN_PERIOD, t)]),
     workers |-> ScheduleLoadGames(ws, "mount", t)]

\* ScheduleScreen._get_cards_per_row
ScheduleCardsPerRow(w) == Max(1, (w - ROW_PADDING) \div CARD_WIDTH)

\* ScheduleScreen._update_games_display at container width w
ScheduleUpdateGamesDisplay(sc, w) ==
    [sc EXCEPT !.per_row = IF sc.games = NoData
                           THEN 0
                           ELSE ScheduleCardsPerRow(w)]

\* a mutant of ScheduleOnResize: the anchor follows every resize event
ScheduleOnResize_follows(sc, new_width) ==
    IF sc.games = NoData
    THEN [screen |-> sc, handled |-> FALSE, relayout |-> FALSE]
    ELSE IF Abs(new_width - sc.last_width) >= CARD_WIDTH
    THEN [screen |-> ScheduleUpdateGamesDisplay(
                         [sc EXCEPT !.last_width = new_width], new_width),
          handled |-> TRUE, relayout |-> TRUE]
    ELSE [screen |-> [sc EXCEPT !.last_width = new_width],
          handled |-> TRUE, relayout |-> FALSE]

\* ScheduleScreen.on_resize with the container new_width wide
ScheduleOnResize(sc, new_width) ==
    IF sc.games = NoData
    THEN [screen |-> sc, handled |-> FALSE, relayout |-> FALSE]
    ELSE IF Abs(new_width - sc.last_width) >= CARD_WIDTH
    THEN [screen |-> ScheduleUpdateGamesDisplay(
                         [sc EXCEPT !.last_width = new_width], new_width),
          handled |-> TRUE, relayout |-> TRUE]
    ELSE [screen |-> sc, handled |-> TRUE, relayout |-> FALSE]

\* current_date.strftime("%Y-%m-%d")
DateStr(d) == ToString(d)

\* a mutant of GetSchedule: the schedule is cached for 10 s
GetSchedule_live_ttl(c, date, t, resp, d) ==
    ClientGet(c, "/schedule/" \o date, Some(LiveTtl), t, resp, d)

\* NHLClient.get_schedule(date) with a date given
GetSchedule(c, date, t, resp, d) ==
    ClientGet(c, "/schedule/" \o date, None, t, resp, d)

\* one request of a fetch routine: its url, how it ended, and the time of
\* the cache entry it was served from or stored
Request(c, endpoint, r) ==
    [url |-> Url(endpoint), outcome |-> r.outcome,
     stored |-> IF r.outcome = "cached" THEN c[Url(endpoint)][1]
                ELSE IF r.outcome = "fetched" THEN r.done ELSE -1]

\* a mutant of ScheduleFetchGames: a failed request stops the refresh timer
ScheduleFetchGames_failure_stops(sc, c, t, resp, d, w) ==
    LET date_str == DateStr(sc.current_date)
        r == GetSchedule(c, date_str, t, resp, d)
        reqs == <<Request(c, "/schedule/" \o date_str, r)>>
    IN  IF r.outcome = "error"
        THEN [screen |-> [sc EXCEPT !.refresh_timer =
                                        StopTimer(sc.refresh_timer)],
              cache |-> r.cache, done |-> r.done, reqs |-> reqs,
              ok |-> FALSE]
        ELSE IF sc.state # "mounted"
        THEN [screen |-> [sc EXCEPT !.games = r.value], cache |-> r.cache,
              done |-> r.done, reqs |-> reqs, ok |-> FALSE]
        ELSE [screen |-> ScheduleUpdateGamesDisplay(
                             [sc EXCEPT !.games = r.value], w),
              cache |-> r.cache, done |-> r.done, reqs |-> reqs,
              ok |-> TRUE]

\* ScheduleScreen._fetch_games run at time t with the container w wide:
\* an exception of the request or of the display update is caught and
\* notified
ScheduleFetchGames(sc, c, t, resp, d, w) ==
    LET date_str == DateStr(sc.current_date)
        r == GetSchedule(c, date_str, t, resp, d)
        reqs == <<Request(c, "/schedule/" \o date_str, r)>>
    IN  IF r.outcome = "error"
        THEN [screen |-> sc, cache |-> r.cache, done |-> r.done,
              reqs |-> reqs, ok |-> FALSE]
        ELSE IF sc.state # "mounted"
        THEN [screen |-> [sc EXCEPT !.games = r.value], cache |-> r.cache,
              done |-> r.done, reqs |-> reqs, ok |-> FALSE]
        ELSE [screen |-> ScheduleUpdateGamesDisplay(
                             [sc EXCEPT !.games = r.value], w),
              cache |-> r.cache, done |-> r.done, reqs |-> reqs,
              ok |-> TRUE]

\* a mutant of ScheduleUpdateCountdown: the countdown goes below 0
ScheduleUpdateCountdown_no_wrap(sc) ==
    ScheduleUpdateSubtitle([sc EXCEPT !.countdown = sc.countdown - 1])

\* ScheduleScreen._update_countdown
ScheduleUpdateCountdown(sc) ==
    ScheduleUpdateSubtitle(
        [sc EXCEPT !.countdown = IF sc.countdown - 1 < 0
                                 THEN REFRESH_INTERVAL
                                 ELSE sc.countdown - 1])

\* a mutant of ScheduleAutoRefresh: the cache is not cleared
ScheduleAutoRefresh_keeps_cache(sc, c, ws, t) ==
    IF sc.current_date = Today
    THEN [screen |-> ScheduleUpdateSubtitle(
                         [sc EXCEPT !.countdown = REFRESH_INTERVAL]),
          cache |-> c, workers |-> ScheduleLoadGames(ws, "auto", t)]
    ELSE [screen |-> [sc EXCEPT !.countdown = REFRESH_INTERVAL],
          cache |-> c, workers |-> ws]

\* a mutant of ScheduleAutoRefresh: the games of any date are refreshed
ScheduleAutoRefresh_any_date(sc, c, ws, t) ==
    [screen |-> ScheduleUpdateSubtitle(
                    [sc EXCEPT !.countdown = REFRESH_INTERVAL]),
     cache |-> ClearedCache(c, t),
     workers |-> ScheduleLoadGames(ws, "auto", t)]

\* ScheduleScreen._auto_refresh at time t: the screen, the cache and the
\* scheduled routines it leaves; only today's games are refreshed
ScheduleAutoRefresh(sc, c, ws, t) ==
    IF sc.current_date = Today
    THEN [screen |-> ScheduleUpdateSubtitle(
                         [sc EXCEPT !.countdown = REFRESH_INTERVAL]),
          cache |-> ClearedCache(c, t),
          workers |-> ScheduleLoadGames(ws, "auto", t)]
    ELSE [screen |-> [sc EXCEPT !.countdown = REFRESH_INTERVAL],
          cache |-> c, workers |-> ws]

\* a mutant of ScheduleActionRefresh: the countdown is left alone
ScheduleActionRefresh_no_reset(sc, c, ws, t) ==
    [screen |-> ScheduleUpdateSubtitle(sc), cache |-> ClearedCache(c, t),
     workers |-> ScheduleLoadGames(ws, "manual", t)]

\* a mutant of ScheduleActionRefresh: the refresh timer starts over
ScheduleActionRefresh_restarts_timer(sc, c, ws, t) ==
    [screen |-> ScheduleUpdateSubtitle(
                    [sc EXCEPT !.countdown = REFRESH_INTERVAL,
                               !.refresh_timer.due = t + REFRESH_PERIOD]),
     cache |-> ClearedCache(c, t),
     workers |-> ScheduleLoadGames(ws, "manual", t)]

\* ScheduleScreen.action_refresh at time t
ScheduleActionRefresh(sc, c, ws, t) ==
    [screen |-> ScheduleUpdateSubtitle(
                    [sc EXCEPT !.countdown = REFRESH_INTERVAL]),
     cache |-> ClearedCache(c, t),
     workers |-> ScheduleLoadGames(ws, "manual", t)]

\* ScheduleScreen.action_prev_day
ScheduleActionPrevDay(sc, ws, t) ==
    [screen |-> ScheduleUpdateSubtitle(
                    [sc EXCEPT !.current_date = sc.current_date - 1]),
     workers |-> ScheduleLoadGames(ws, "nav", t)]

\* ScheduleScreen.action_next_day
ScheduleActionNextDay(sc, ws, t) ==
    [screen |-> ScheduleUpdateSubtitle(
                    [sc EXCEPT !.current_date = sc.current_date + 1]),
     workers |-> ScheduleLoadGames(ws, "nav", t)]

\* ScheduleScreen.action_today
ScheduleActionToday(sc, ws, t) ==
    [screen |-> ScheduleUpdateSubtitle(
                    [sc EXCEPT !.current_date = Today,
                               !.countdown = REFRESH_INTERVAL]),
     workers |-> ScheduleLoadGames(ws, "nav", t)]

\* ScheduleScreen.on_unmount
ScheduleOnUnmount(sc) ==
    [sc EXCEPT !.state = "unmounted",
               !.refresh_timer = StopTimer(sc.refresh_timer),
               !.countdown_timer = StopTimer(sc.countdown_timer)]

-----------------------------------------------------------------------------
(* screens/game.py *)

GAME_ID == "2024020001"

\* the gameState a box score payload carries
BoxscoreGameState(p) == IF p % 2 = 1 THEN "LIVE" ELSE "FINAL"

\* GameScreen._update_subtitle
GameUpdateSubtitle(g) == [g EXCEPT !.sub_title = RefreshingIn(g.countdown)]

\* GameScreen.load_game_data: run_worker(self._fetch_game_data())
GameLoadGameData(ws, by, t) == Append(ws, Worker("game", by, t))

\* a mutant of GameOnMount: the timers are set up whatever the game state
GameOnMount_any_state(g, ws, t) ==
    [screen |-> [g EXCEPT !.state = "mounted",
                          !.countdown = REFRESH_INTERVAL,
                          !.refresh_timer = SetInterval(REFRESH_PERIOD, t),
                          !.countdown_timer = SetInterval(COUNTDOWN_PERIOD, t),
                          !.sub_title = RefreshingIn(REFRESH_INTERVAL)],
     workers |-> Append(ws, Worker("game", "mount", t))]

\* a mutant of GameOnMount: the countdown timer is not started
GameOnMount_no_countdown_timer(g, ws, t) ==
    [screen |-> IF g.game_state \in {"PRE", "LIVE", "CRIT"}
                THEN [g EXCEPT !.state = "mounted",
                               !.countdown = REFRESH_INTERVAL,
                               !.refresh_timer =
                                   SetInterval(REFRESH_PERIOD, t),
                               !.sub_title = RefreshingIn(REFRESH_INTERVAL)]
                ELSE [g EXCEPT !.state = "mounted"],
     workers |-> Append(ws, Worker("game", "mount", t))]

\* GameScreen.on_mount: the timers are set up for PRE, LIVE and CRIT only
GameOnMount(g, ws, t) ==
    [screen |-> IF g.game_state \in {"PRE", "LIVE", "CRIT"}
                THEN GameUpdateSubtitle(
                         [g EXCEPT !.state = "mounted",
                                   !.countdown = REFRESH_INTERVAL,
                                   !.refresh_timer =
                                       SetInterval(REFRESH_PERIOD, t),
                                   !.countdown_timer =
                                       SetInterval(COUNTDOWN_PERIOD, t)])
                ELSE [g EXCEPT !.state = "mounted"],
     workers |-> GameLoadGameData(ws, "mount", t)]

\* GameScreen._is_wide_layout
GameIsWideLayout(w) == w >= WIDE_LAYOUT_MIN_WIDTH

\* GameScreen._update_main_content at container width w
GameUpdateMainContent(g, w) ==
    [g EXCEPT !.layout = IF g.boxscore = NoData THEN "loading"
                         ELSE IF GameIsWideLayout(w) THEN "wide"
                         ELSE "stacked"]

\* a mutant of GameOnResize: the anchor follows every resize event
GameOnResize_follows(g, new_width) ==
    IF Abs(new_width - g.last_width) >= GAME_RESIZE_DELTA
    THEN [screen |-> GameUpdateMainContent(
                         [g EXCEPT !.last_width = new_width], new_width),
          handled |-> TRUE, relayout |-> TRUE]
    ELSE [screen |-> [g EXCEPT !.last_width = new_width],
          handled |-> TRUE, relayout |-> FALSE]

\* GameScreen.on_resize with the container new_width wide
GameOnResize(g, new_width) ==
    IF Abs(new_width - g.last_width) >= GAME_RESIZE_DELTA
    THEN [screen |-> GameUpdateMainContent(
                         [g EXCEPT !.last_width = new_width], new_width),
          handled |-> TRUE, relayout |-> TRUE]
    ELSE [screen |-> g, handled |-> TRUE, relayout |-> FALSE]

\* NHLClient.get_game_boxscore
GetGameBoxscore(c, t, resp, d) ==
    ClientGet(c, "/gamecenter/" \o GAME_ID \o "/boxscore", Some(LiveTtl),
              t, resp, d)

\* NHLClient.get_game_play_by_play
GetGamePlayByPlay(c, t, resp, d) ==
    ClientGet(c, "/gamecenter/" \o GAME_ID \o "/play-by-play", Some(LiveTtl),
              t, resp, d)

\* a mutant of GetGameLanding: no cache_ttl is passed
GetGameLanding_default_ttl(c, t, resp, d) ==
    ClientGet(c, "/gamecenter/" \o GAME_ID \o "/landing", None, t, resp, d)

\* NHLClient.get_game_landing
GetGameLanding(c, t, resp, d) ==
    ClientGet(c, "/gamecenter/" \o GAME_ID \o "/landing", Some(LiveTtl),
              t, resp, d)

\* GameScreen._update_game_from_boxscore
GameUpdateGameFromBoxscore(g) ==
    [g EXCEPT !.game_state = BoxscoreGameState(g.boxscore)]

\* GameScreen._fetch_game_data run at time t with the container w wide, the
\* feed answering the three requests resps[1..3]: self.boxscore is assigned
\* as soon as the first request returns; an exception of a request or of
\* the display update is caught and notified
GameFetchGameData(g, c, t, resps, d, w) ==
    LET r1 == GetGameBoxscore(c, t, resps[1], d)
        q1 == Request(c, "/gamecenter/" \o GAME_ID \o "/boxscore", r1)
        g1 == [g EXCEPT !.boxscore = r1.value]
        r2 == GetGamePlayByPlay(r1.cache, r1.done, resps[2], d)
        q2 == Request(r1.cache, "/gamecenter/" \o GAME_ID \o "/play-by-play",
                      r2)
        r3 == GetGameLanding(r2.cache, r2.done, resps[3], d)
        q3 == Request(r2.cache, "/gamecenter/" \o GAME_ID \o "/landing", r3)
        g3 == [GameUpdateGameFromBoxscore(g1)
                   EXCEPT !.play_by_play = r2.value,
                          !.scoring_summary = r3.value]
    IN  IF r1.outcome = "error"
        THEN [screen |-> g, cache |-> r1.cache, done |-> r1.done,
              reqs |-> <<q1>>, ok |-> FALSE]
        ELSE IF r2.outcome = "error"
        THEN [screen |-> g1, cache |-> r2.cache, done |-> r2.done,
              reqs |-> <<q1, q2>>, ok |-> FALSE]
        ELSE IF r3.outcome = "error"
        THEN [screen |-> g1, cache |-> r3.cache, done |-> r3.done,
              reqs |-> <<q1, q2, q3>>, ok |-> FALSE]
        ELSE IF g.state # "mounted"
        THEN [screen |-> g3, cache |-> r3.cache, done |-> r3.done,
              reqs |-> <<q1, q2, q3>>, ok |-> FALSE]
        ELSE [screen |-> GameUpdateMainContent(g3, w), cache |-> r3.cache,
              done |-> r3.done, reqs |-> <<q1, q2, q3>>, ok |-> TRUE]

\* GameScreen._update_countdown
GameUpdateCountdown(g) ==
    GameUpdateSubtitle(
        [g EXCEPT !.countdown = IF g.countdown - 1 < 0
                                THEN REFRESH_INTERVAL
                                ELSE g.countdown - 1])

\* GameScreen._auto_refresh at time t
GameAutoRefresh(g, c, ws, t) ==
    [screen |-> GameUpdateSubtitle([g EXCEPT !.countdown = REFRESH_INTERVAL]),
     cache |-> ClearedCache(c, t),
     workers |-> GameLoadGameData(ws, "auto", t)]

\* a mutant of GameActionRefresh: the cache is not cleared
GameActionRefresh_keeps_cache(g, c, ws, t) ==
    [screen |-> GameUpdateSubtitle([g EXCEPT !.countdown = REFRESH_INTERVAL]),
     cache |-> c,
     workers |-> GameLoadGameData(ws, "manual", t)]

\* GameScreen.action_refresh at time t
GameActionRefresh(g, c, ws, t) ==
    [screen |-> GameUpdateSubtitle([g EXCEPT !.countdown = REFRESH_INTERVAL]),
     cache |-> ClearedCache(c, t),
     workers |-> GameLoadGameData(ws, "manual", t)]

\* a mutant of GameOnUnmount: the countdown timer is left running
GameOnUnmount_keeps_countdown(g) ==
    [g EXCEPT !.state = "unmounted",
              !.refresh_timer = StopTimer(g.refresh_timer)]

\* GameScreen.on_unmount
GameOnUnmount(g) ==
    [g EXCEPT !.state = "unmounted",
              !.refresh_timer = StopTimer(g.refresh_timer),
              !.countdown_timer = StopTimer(g.countdown_timer)]

-----------------------------------------------------------------------------
(* screens/teams.py *)

\* TeamsScreen.load_teams: run_worker(self._fetch_teams())
TeamsLoadTeams(ws, by, t) == Append(ws, Worker("teams", by, t))

\* TeamsScreen.on_mount
TeamsOnMount(tm, ws, t) ==
    [screen |-> [tm EXCEPT !.state = "mounted"],
     workers |-> TeamsLoadTeams(ws, "mount", t)]

\* TeamsScreen._get_cards_per_row
TeamsCardsPerRow(w) == Max(1, (w - ROW_PADDING) \div TEAM_CARD_WIDTH)

\* TeamsScreen._update_teams_display at container width w
TeamsUpdateTeamsDisplay(tm, w) ==
    [tm EXCEPT !.per_row = IF tm.teams = NoData THEN 0
                           ELSE TeamsCardsPerRow(w)]

\* TeamsScreen.on_resize with the container new_width wide
TeamsOnResize(tm, new_width) ==
    IF tm.teams = NoData
    THEN [screen |-> tm, handled |-> FALSE, relayout |-> FALSE]
    ELSE IF Abs(new_width - tm.last_width) >= TEAM_CARD_WIDTH
    THEN [screen |-> TeamsUpdateTeamsDisplay(
                         [tm EXCEPT !.last_width = new_width], new_width),
          handled |-> TRUE, relayout |-> TRUE]
    ELSE [screen |-> tm, handled |-> TRUE, relayout |-> FALSE]

\* NHLClient.get_standings() with no date
GetStandings(c, t, resp, d) ==
    ClientGet(c, "/standings/now", None, t, resp, d)

\* TeamsScreen._fetch_teams run at time t with the container w wide
TeamsFetchTeams(tm, c, t, resp, d, w) ==
    LET r == GetStandings(c, t, resp, d)
        reqs == <<Request(c, "/standings/now", r)>>
    IN  IF r.outcome = "error"
        THEN [screen |-> tm, cache |-> r.cache, done |-> r.done,
              reqs |-> reqs, ok |-> FALSE]
        ELSE IF tm.state # "mounted"
        THEN [screen |-> [tm EXCEPT !.teams = r.value], cache |-> r.cache,
              done |-> r.done, reqs |-> reqs, ok |-> FALSE]
        ELSE [screen |-> TeamsUpdateTeamsDisplay(
                             [tm EXCEPT !.teams = r.value], w),
              cache |-> r.cache, done |-> r.done, reqs |-> reqs,
              ok |-> TRUE]

-----------------------------------------------------------------------------
(* api/client.py: the methods of the client, each on the endpoint and with *)
(* the cache_ttl it passes to _get; a method that takes an optional date   *)
(* or month is called without it, get_schedule with the date of today      *)

TEAM_ABBREV == "TOR"

PLAYER_ID == "8478402"

\* NHLClient.get_scoreboard
GetScoreboard(c, t, resp, d) ==
    ClientGet(c, "/scoreboard/now", Some(LiveTtl), t, resp, d)

\* NHLClient.get_skater_stats_leaders
GetSkaterStatsLeaders(c, t, resp, d) ==
    ClientGet(c, "/skater-stats-leaders/current", None, t, resp, d)

\* NHLClient.get_goalie_stats_leaders
GetGoalieStatsLeaders(c, t, resp, d) ==
    ClientGet(c, "/goalie-stats-leaders/current", None, t, resp, d)

\* NHLClient.get_team_roster
GetTeamRoster(c, t, resp, d) ==
    ClientGet(c, "/roster/" \o TEAM_ABBREV \o "/current", None, t, resp, d)

\* a mutant of GetTeamSchedule: it reads the scoreboard, under the default
\* ttl
GetTeamSchedule_scoreboard_url(c, t, resp, d) ==
    ClientGet(c, "/scoreboard/now", None, t, resp, d)

\* NHLClient.get_team_schedule
GetTeamSchedule(c, t, resp, d) ==
    ClientGet(c, "/club-schedule/" \o TEAM_ABBREV \o "/week/now", None,
              t, resp, d)

\* datetime.now().strftime("%Y-%m")
CURRENT_MONTH == "2024-10"

\* NHLClient.get_team_month_schedule, called without a month
GetTeamMonthSchedule(c, t, resp, d) ==
    ClientGet(c, "/club-schedule/" \o TEAM_ABBREV \o "/month/"
                     \o CURRENT_MONTH, None, t, resp, d)

\* NHLClient.get_team_stats
GetTeamStats(c, t, resp, d) ==
    ClientGet(c, "/club-stats/" \o TEAM_ABBREV \o "/now", None, t, resp, d)

\* NHLClient.get_player_landing
GetPlayerLanding(c, t, resp, d) ==
    ClientGet(c, "/player/" \o PLAYER_ID \o "/landing", None, t, resp, d)

\* NHLClient.get_player_game_log
GetPlayerGameLog(c, t, resp, d) ==
    ClientGet(c, "/player/" \o PLAYER_ID \o "/game-log/now", None,
              t, resp, d)

Methods ==
    {"get_schedule", "get_scoreboard", "get_game_boxscore",
     "get_game_play_by_play", "get_game_landing", "get_standings",
     "get_skater_stats_leaders", "get_goalie_stats_leaders",
     "get_team_roster", "get_team_schedule", "get_team_month_schedule",
     "get_team_stats", "get_player_landing", "get_player_game_log"}

\* the method called on the cache c at time t
Method(method, c, t, resp, d) ==
    CASE method = "get_schedule" -> GetSchedule(c, DateStr(Today), t, resp, d)
      [] method = "get_scoreboard" -> GetScoreboard(c, t, resp, d)
      [] method = "get_game_boxscore" -> GetGameBoxscore(c, t, resp, d)
      [] method = "get_game_play_by_play" ->
             GetGamePlayByPlay(c, t, resp, d)
      [] method = "get_game_landing" -> GetGameLanding(c, t, resp, d)
      [] method = "get_standings" -> GetStandings(c, t, resp, d)
      [] method = "get_skater_stats_leaders" ->
             GetSkaterStatsLeaders(c, t, resp, d)
      [] method = "get_goalie_stats_leaders" ->
             GetGoalieStatsLeaders(c, t, resp, d)
      [] method = "get_team_roster" -> GetTeamRoster(c, t, resp, d)
      [] method = "get_team_schedule" -> GetTeamSchedule(c, t, resp, d)
      [] method = "get_team_month_schedule" ->
             GetTeamMonthSchedule(c, t, resp, d)
      [] method = "get_team_stats" -> GetTeamStats(c, t, resp, d)
      [] method = "get_player_landing" -> GetPlayerLanding(c, t, resp, d)
      [] method = "get_player_game_log" -> GetPlayerGameLog(c, t, resp, d)

-----------------------------------------------------------------------------
(* screens/standings.py *)

SIDE_BY_SIDE_MIN_WIDTH == 150

\* StandingsScreen._is_wide_enough with the screen w wide
StandingsIsWideEnough(w) == w >= SIDE_BY_SIDE_MIN_WIDTH

\* StandingsScreen._update_all_views with the screen w wide; the standings
\* of the feed hold both conferences, which a wide screen shows side by side
StandingsUpdateAllViews(st, w) ==
    [st EXCEPT !.layout = IF st.standings = NoData THEN "empty"
                          ELSE IF StandingsIsWideEnough(w) THEN "wide"
                          ELSE "stacked"]

\* StandingsScreen.load_standings: run_worker(self._fetch_standings())
StandingsLoadStandings(ws, by, t) == Append(ws, Worker("standings", by, t))

\* StandingsScreen.on_mount
StandingsOnMount(st, ws, t) ==
    [screen |-> [st EXCEPT !.state = "mounted"],
     workers |-> StandingsLoadStandings(ws, "mount", t)]

\* StandingsScreen._fetch_standings run at time t with the screen w wide
StandingsFetchStandings(st, c, t, resp, d, w) ==
    LET r == GetStandings(c, t, resp, d)
        reqs == <<Request(c, "/standings/now", r)>>
    IN  IF r.outcome = "error"
        THEN [screen |-> st, cache |-> r.cache, done |-> r.done,
              reqs |-> reqs, ok |-> FALSE]
        ELSE [screen |-> StandingsUpdateAllViews(
                             [st EXCEPT !.standings = r.value], w),
              cache |-> r.cache, done |-> r.done, reqs |-> reqs,
              ok |-> TRUE]

\* StandingsScreen.on_resize with the screen new_width wide
StandingsOnResize(st, new_width) ==
    IF st.standings = NoData
    THEN [screen |-> st, handled |-> FALSE, relayout |-> FALSE]
    ELSE LET was_wide == st.last_width >= SIDE_BY_SIDE_MIN_WIDTH
             is_wide == new_width >= SIDE_BY_SIDE_MIN_WIDTH
         IN  IF was_wide # is_wide
             THEN [screen |-> StandingsUpdateAllViews(
                                  [st EXCEPT !.last_width = new_width],
                                  new_width),
                   handled |-> TRUE, relayout |-> TRUE]
             ELSE [screen |-> st, handled |-> TRUE, relayout |-> FALSE]

\* StandingsScreen.action_refresh at time t
StandingsActionRefresh(st, c, ws, t) ==
    [screen |-> st, cache |-> ClearedCache(c, t),
     workers |-> StandingsLoadStandings(ws, "manual", t)]

-----------------------------------------------------------------------------
(* History kept for the properties of the client *)

NoCall ==
    [op |-> "none", url |-> "", ttl |-> 0, at |-> 0, done |-> 0,
     outcome |-> "none", value |-> 0, prior |-> <<>>, removed |-> <<>>,
     before |-> <<>>, arg |-> None, prev_url |-> "", prev_arg |-> None,
     method |-> ""]

\* <<entry>> when f has one for url, <<>> when it has none
Lookup(f, url) == IF url \in DOMAIN f THEN <<f[url]>> ELSE <<>>

-----------------------------------------------------------------------------
(* Events of the application *)

GameStates == {"LIVE", "FINAL"}

\* the width change at which a screen's on_resize lays out again
Threshold(screen) ==
    CASE screen = "schedule" -> CARD_WIDTH
      [] screen = "game" -> GAME_RESIZE_DELTA
      [] screen = "teams" -> TEAM_CARD_WIDTH

LastWidth(screen) ==
    CASE screen = "schedule" -> sched.last_width
      [] screen = "game" -> game.last_width
      [] screen = "teams" -> teams.last_width

\* an event other than a resize, handled by screen
Event(kind, screen) ==
    [NoEvent EXCEPT !.kind = kind, !.screen = screen, !.relaid = ev.relaid]

\* the terminal is resized: the active screen's on_resize runs with its
\* container new_width wide
Resize(new_width) ==
    /\ Top # ""
    /\ LET r == CASE Top = "schedule" -> ScheduleOnResize(sched, new_width)
                  [] Top = "game" -> GameOnResize(game, new_width)
                  [] Top = "teams" -> TeamsOnResize(teams, new_width)
       IN  /\ sched' = IF Top = "schedule" THEN r.screen ELSE sched
           /\ game' = IF Top = "game" THEN r.screen ELSE game
           /\ teams' = IF Top = "teams" THEN r.screen ELSE teams
           /\ ev' = [Event("resize", Top) EXCEPT
                     !.anchor = LastWidth(Top),
                     !.new_width = new_width,
                     !.handled = r.handled,
                     !.relayout = r.relayout,
                     !.small_step = Abs(new_width - width) < Threshold(Top),
                     !.relaid_before = ev.relaid[Top],
                     !.relaid = IF r.relayout
                                THEN [ev.relaid EXCEPT ![Top] = new_width]
                                ELSE ev.relaid]
    /\ width' = new_width
    /\ UNCHANGED navVars
    /\ UNCHANGED <<clientVars, stack, workers, run, keys>>

\* a timer callback or a key handled by screen, which leaves the cache c
Refreshed(kind, screen, countdown, c) ==
    [Event(kind, screen) EXCEPT !.cache_same = (c = cache),
                                !.entries = Cardinality(DOMAIN cache),
                                !.queued = Len(workers),
                                !.countdown = countdown,
                                !.refresh_due =
                                    ScreenOf(screen).refresh_timer.due]

\* what a refresh handler of the ScheduleScreen leaves behind, r being its
\* result: the countdown, the cache, and the requests the routine it
\* scheduled issues, for each answer of the network
ScheduleRefreshEffect(r) ==
    [countdown |-> r.screen.countdown, cache |-> r.cache,
     requests |-> IF Len(r.workers) = Len(workers) THEN {}
                  ELSE {ScheduleFetchGames(r.screen, r.cache, now, resp, 0,
                                           width).reqs : resp \in Responses}]

\* the same for a refresh handler of the GameScreen
GameRefreshEffect(r) ==
    [countdown |-> r.screen.countdown, cache |-> r.cache,
     requests |-> IF Len(r.workers) = Len(workers) THEN {}
                  ELSE {GameFetchGameData(r.screen, r.cache, now, resps, 0,
                                          width).reqs :
                            resps \in GameResponses}]

\* FaceoffApp.on_mount: the ScheduleScreen is pushed and mounted
AppMount ==
    /\ stack = <<>>
    /\ sched.state = "new"
    /\ LET m == ScheduleOnMount(sched, workers, now)
       IN  /\ sched' = m.screen
           /\ workers' = m.workers
    /\ stack' = <<"schedule">>
    /\ ev' = Event("mount", "schedule")
    /\ UNCHANGED navVars
    /\ UNCHANGED <<clientVars, game, teams, width, run, keys>>

\* when a timer that fired with the clock at t fires next: the next
\* multiple of its interval that is not in the past
NextDue(timer, t) ==
    IF timer.due + timer.interval >= t
    THEN timer.due + timer.interval
    ELSE timer.due
         + ((t - timer.due + timer.interval - 1) \div timer.interval)
           * timer.interval

Rearmed(timer, t) == [timer EXCEPT !.due = NextDue(timer, t)]

IsDue(timer) == timer.active /\ timer.due <= now

\* the countdown timer of the ScheduleScreen fires: _update_countdown
FireScheduleCountdown ==
    /\ IsDue(sched.countdown_timer)
    /\ sched' = [ScheduleUpdateCountdown(sched) EXCEPT
                     !.countdown_timer = Rearmed(sched.countdown_timer, now)]
    /\ ev' = [Refreshed("countdown", "schedule", sched.countdown, cache)
                  EXCEPT !.due = sched.countdown_timer.due]
    /\ UNCHANGED navVars
    /\ UNCHANGED <<clientVars, game, teams, stack, workers, width, run, keys>>

\* the refresh timer of the ScheduleScreen fires: _auto_refresh
FireScheduleRefresh ==
    /\ IsDue(sched.refresh_timer)
    /\ LET r == ScheduleAutoRefresh(sched, cache, workers, now)
       IN  /\ sched' = [r.screen EXCEPT
                            !.refresh_timer = Rearmed(sched.refresh_timer, now)]
           /\ cache' = r.cache
           /\ workers' = r.workers
           /\ ev' = [Refreshed("auto_refresh", "schedule", sched.countdown,
                               r.cache) EXCEPT
                         !.due = sched.refresh_timer.due,
                         !.converges =
                             (ScheduleRefreshEffect(r) = ScheduleRefreshEffect(
                                  ScheduleActionRefresh(sched, cache, workers,
                                                        now)))]
    /\ UNCHANGED navVars
    /\ UNCHANGED <<now, issued, last, game, teams, stack, width, run, keys>>

\* the countdown timer of the GameScreen fires: _update_countdown
FireGameCountdown ==
    /\ IsDue(game.countdown_timer)
    /\ game' = [GameUpdateCountdown(game) EXCEPT
                    !.countdown_timer = Rearmed(game.countdown_timer, now)]
    /\ ev' = [Refreshed("countdown", "game", game.countdown, cache)
                  EXCEPT !.due = game.countdown_timer.due]
    /\ UNCHANGED navVars
    /\ UNCHANGED <<clientVars, sched, teams, stack, workers, width, run, keys>>

\* the refresh timer of the GameScreen fires: _auto_refresh
FireGameRefresh ==
    /\ IsDue(game.refresh_timer)
    /\ LET r == GameAutoRefresh(game, cache, workers, now)
       IN  /\ game' = [r.screen EXCEPT
                           !.refresh_timer = Rearmed(game.refresh_timer, now)]
           /\ cache' = r.cache
           /\ workers' = r.workers
           /\ ev' = [Refreshed("auto_refresh", "game", game.countdown,
                               r.cache) EXCEPT
                         !.due = game.refresh_timer.due,
                         !.converges =
                             (GameRefreshEffect(r) = GameRefreshEffect(
                                  GameActionRefresh(game, cache, workers,
                                                    now)))]
    /\ UNCHANGED navVars
    /\ UNCHANGED <<now, issued, last, sched, teams, stack, width, run, keys>>

\* the user presses a key the active screen binds
Key(screen) ==
    /\ Top = screen
    /\ keys < MaxKeys
    /\ now % KeyEvery = 0
    /\ keys' = keys + 1

\* r on the ScheduleScreen: action_refresh
ScheduleRefreshKey ==
    /\ Key("schedule")
    /\ LET r == ScheduleActionRefresh(sched, cache, workers, now)
       IN  /\ sched' = r.screen
           /\ cache' = r.cache
           /\ workers' = r.workers
           /\ ev' = [Refreshed("manual_refresh", "schedule",
                               sched.countdown, r.cache) EXCEPT
                         !.converges =
                             (ScheduleRefreshEffect(r) = ScheduleRefreshEffect(
                                  ScheduleAutoRefresh(sched, cache, workers,
                                                      now)))]
    /\ UNCHANGED navVars
    /\ UNCHANGED <<now, issued, last, game, teams, stack, width, run>>

\* h on the ScheduleScreen: action_prev_day
PrevDayKey ==
    /\ Key("schedule")
    /\ sched.current_date > Today - MaxDays
    /\ LET r == ScheduleActionPrevDay(sched, workers, now)
       IN  /\ sched' = r.screen
           /\ workers' = r.workers
    /\ ev' = Refreshed("prev_day", "schedule", sched.countdown, cache)
    /\ UNCHANGED navVars
    /\ UNCHANGED <<clientVars, game, teams, stack, width, run>>

\* l on the ScheduleScreen: action_next_day
NextDayKey ==
    /\ Key("schedule")
    /\ sched.current_date < Today + MaxDays
    /\ LET r == ScheduleActionNextDay(sched, workers, now)
       IN  /\ sched' = r.screen
           /\ workers' = r.workers
    /\ ev' = Refreshed("next_day", "schedule", sched.countdown, cache)
    /\ UNCHANGED navVars
    /\ UNCHANGED <<clientVars, game, teams, stack, width, run>>

\* t on the ScheduleScreen: action_today
TodayKey ==
    /\ Key("schedule")
    /\ LET r == ScheduleActionToday(sched, workers, now)
       IN  /\ sched' = r.screen
           /\ workers' = r.workers
    /\ ev' = Refreshed("today", "schedule", sched.countdown, cache)
    /\ UNCHANGED navVars
    /\ UNCHANGED <<clientVars, game, teams, stack, width, run>>

\* a game card is selected: on_game_card_selected pushes a GameScreen for a
\* game that is under way or over, and the GameScreen is mounted
SelectGame(game_state) ==
    /\ Key("schedule")
    /\ sched.games # NoData
    /\ game.state = "new"
    /\ LET m == GameOnMount(NewGameScreen(game_state), workers, now)
       IN  /\ game' = m.screen
           /\ workers' = m.workers
    /\ stack' = Append(stack, "game")
    /\ ev' = Event("mount", "game")
    /\ UNCHANGED navVars
    /\ UNCHANGED <<clientVars, sched, teams, width, run>>

\* r on the GameScreen: action_refresh
GameRefreshKey ==
    /\ Key("game")
    /\ LET r == GameActionRefresh(game, cache, workers, now)
       IN  /\ game' = r.screen
           /\ cache' = r.cache
           /\ workers' = r.workers
           /\ ev' = [Refreshed("manual_refresh", "game", game.countdown,
                               r.cache) EXCEPT
                         !.converges =
                             (GameRefreshEffect(r) = GameRefreshEffect(
                                  GameAutoRefresh(game, cache, workers, now)))]
    /\ UNCHANGED navVars
    /\ UNCHANGED <<now, issued, last, sched, teams, stack, width, run>>

\* escape or b on the GameScreen: action_back pops the screen, which is
\* unmounted
GameBack ==
    /\ Key("game")
    /\ game' = GameOnUnmount(game)
    /\ stack' = SubSeq(stack, 1, Len(stack) - 1)
    /\ ev' = Event("unmount", "game")
    /\ UNCHANGED navVars
    /\ UNCHANGED <<clientVars, sched, teams, workers, width, run>>

\* q on the active screen: action_quit ends the application, and every
\* screen on the stack is unmounted
Quit ==
    /\ Top # ""
    /\ keys < MaxKeys
    /\ now % KeyEvery = 0
    /\ keys' = keys + 1
    /\ sched' = ScheduleOnUnmount(sched)
    /\ game' = IF game.state = "mounted" THEN GameOnUnmount(game) ELSE game
    /\ stack' = <<>>
    /\ ev' = Event("unmount", "schedule")
    /\ UNCHANGED navVars
    /\ UNCHANGED <<clientVars, teams, workers, width, run>>

\* a second passes: the event loop is idle, no timer is due and no fetch
\* routine is waiting to run (or the application has ended, and none will)
Tick(limit) ==
    /\ now < limit
    /\ workers = <<>> \/ stack = <<>>
    /\ ~IsDue(sched.refresh_timer)
    /\ ~IsDue(sched.countdown_timer)
    /\ ~IsDue(game.refresh_timer)
    /\ ~IsDue(game.countdown_timer)
    /\ now' = now + 1
    /\ last' = NoCall
    /\ run' = NoRun
    /\ ev' = Idle(ev)
    /\ UNCHANGED navVars
    /\ UNCHANGED <<cache, issued, sched, game, teams, stack, workers, width,
                   keys>>

\* the event loop runs the oldest scheduled fetch routine, of ScheduleScreen:
\* the routine has no await, so it runs to its end in one step, and the
\* clock moves by the time its request blocks
RunScheduleWorker(limit) ==
    /\ stack # <<>>
    /\ workers # <<>>
    /\ Head(workers).screen = "schedule"
    /\ \E resp \in Responses, d \in 0..MaxLatency :
           LET f == ScheduleFetchGames(sched, cache, now, resp, d, width)
           IN  /\ f.done <= limit
               /\ sched' = f.screen
               /\ cache' = f.cache
               /\ now' = f.done
               /\ run' = [screen |-> "schedule", by |-> Head(workers).by,
                          at |-> Head(workers).at, reqs |-> f.reqs,
                          ok |-> f.ok]
    /\ workers' = Tail(workers)
    /\ ev' = Idle(ev)
    /\ UNCHANGED navVars
    /\ UNCHANGED <<issued, last, game, teams, stack, width, keys>>

\* the event loop runs the oldest scheduled fetch routine, of GameScreen
RunGameWorker(limit) ==
    /\ stack # <<>>
    /\ workers # <<>>
    /\ Head(workers).screen = "game"
    /\ \E resps \in GameResponses, d \in 0..MaxLatency :
           LET f == GameFetchGameData(game, cache, now, resps, d, width)
           IN  /\ f.done <= limit
               /\ game' = f.screen
               /\ cache' = f.cache
               /\ now' = f.done
               /\ run' = [screen |-> "game", by |-> Head(workers).by,
                          at |-> Head(workers).at, reqs |-> f.reqs,
                          ok |-> f.ok]
    /\ workers' = Tail(workers)
    /\ ev' = Idle(ev)
    /\ UNCHANGED navVars
    /\ UNCHANGED <<issued, last, sched, teams, stack, width, keys>>

\* the event loop runs the oldest scheduled fetch routine, of TeamsScreen
RunTeamsWorker(limit) ==
    /\ stack # <<>>
    /\ workers # <<>>
    /\ Head(workers).screen = "teams"
    /\ \E resp \in Responses, d \in 0..MaxLatency :
           LET f == TeamsFetchTeams(teams, cache, now, resp, d, width)
           IN  /\ f.done <= limit
               /\ teams' = f.screen
               /\ cache' = f.cache
               /\ now' = f.done
               /\ run' = [screen |-> "teams", by |-> Head(workers).by,
                          at |-> Head(workers).at, reqs |-> f.reqs,
                          ok |-> f.ok]
    /\ workers' = Tail(workers)
    /\ ev' = Idle(ev)
    /\ UNCHANGED navVars
    /\ UNCHANGED <<issued, last, sched, game, stack, width, keys>>

-----------------------------------------------------------------------------
(* The client on its own: any caller, any endpoint, any ttl, at any time *)

Endpoints == {"/scoreboard/now", "/schedule/now"}

TtlArgs == {None, Some(LiveTtl)}

InitClient ==
    /\ now = 0
    /\ cache = << >>
    /\ issued = << >>
    /\ last = NoCall
    /\ InitScreens
    /\ width = MinWidth

\* a caller calls _get(endpoint, cache_ttl)
Get(endpoint, cache_ttl) ==
    \E resp \in Responses, d \in 0..MaxLatency :
        LET url == Url(endpoint)
            r == ClientGet(cache, endpoint, cache_ttl, now, resp, d)
        IN  /\ r.done <= MaxClock
            /\ cache' = r.cache
            /\ now' = r.done
            /\ issued' = IF r.outcome = "fetched"
                         THEN Store(issued, url, r.done, r.value)
                         ELSE issued
            /\ last' = [op |-> "get", url |-> url, ttl |-> Ttl(cache_ttl),
                        at |-> now, done |-> r.done, outcome |-> r.outcome,
                        value |-> r.value, prior |-> Lookup(issued, url),
                        removed |-> IF last.op = "clear"
                                    THEN Lookup(last.before, url)
                                    ELSE <<>>,
                        before |-> cache, arg |-> cache_ttl,
                        prev_url |-> IF last.op = "get" THEN last.url
                                     ELSE "",
                        prev_arg |-> IF last.op = "get" THEN last.arg
                                     ELSE None,
                        method |-> ""]
            /\ UNCHANGED screenVars

\* a caller calls clear_cache()
ClearCache ==
    /\ cache' = ClearedCache(cache, now)
    /\ issued' = << >>
    /\ last' = [NoCall EXCEPT !.op = "clear", !.at = now, !.done = now,
                              !.before = cache]
    /\ UNCHANGED now
    /\ UNCHANGED screenVars

NextClient ==
    \/ \E e \in Endpoints, t \in TtlArgs : Get(e, t)
    \/ ClearCache
    \/ Tick(MaxClock)

SpecClient == InitClient /\ [][NextClient]_vars

-----------------------------------------------------------------------------
(* The resize handlers: one of the three screens is the active one, at any *)
(* width, its first fetch routine scheduled, and the terminal is resized   *)
(* to any widths before and after the routine runs or fails; the requests  *)
(* are answered within the second, so the clock stays at 0                 *)

\* the application just after FaceoffApp.on_mount pushed the ScheduleScreen
MountedSchedule == ScheduleOnMount(NewScheduleScreen, <<>>, 0)

\* the ScheduleScreen after its first fetch routine loaded the games
LoadedSchedule(w) ==
    ScheduleFetchGames(MountedSchedule.screen, << >>, 0,
                       [ok |-> TRUE, data |-> 1], 0, w)

InitResize ==
    /\ InitNav
    /\ now = 0
    /\ issued = << >>
    /\ last = NoCall
    /\ ev = NoEvent
    /\ run = NoRun
    /\ keys = 0
    /\ width \in Widths
    /\ \/ /\ stack = <<"schedule">>
          /\ sched = MountedSchedule.screen
          /\ workers = MountedSchedule.workers
          /\ cache = << >>
          /\ game = NewGameScreen("FINAL")
          /\ teams = NewTeamsScreen
       \/ /\ stack = <<"schedule", "game">>
          /\ sched = LoadedSchedule(width).screen
          /\ cache = LoadedSchedule(width).cache
          /\ game = GameOnMount(NewGameScreen("LIVE"), <<>>, 0).screen
          /\ workers = GameOnMount(NewGameScreen("LIVE"), <<>>, 0).workers
          /\ teams = NewTeamsScreen
       \/ /\ stack = <<"schedule", "teams">>
          /\ sched = LoadedSchedule(width).screen
          /\ cache = LoadedSchedule(width).cache
          /\ game = NewGameScreen("FINAL")
          /\ teams = TeamsOnMount(NewTeamsScreen, <<>>, 0).screen
          /\ workers = TeamsOnMount(NewTeamsScreen, <<>>, 0).workers

NextResize ==
    \/ \E w \in Widths : Resize(w)
    \/ RunScheduleWorker(0)
    \/ RunGameWorker(0)
    \/ RunTeamsWorker(0)

SpecResize == InitResize /\ [][NextResize]_vars

-----------------------------------------------------------------------------
(* The application: the ScheduleScreen, a GameScreen pushed over it, their *)
(* timers, keys and fetch routines, and the client they share              *)

Init ==
    /\ now = 0
    /\ cache = << >>
    /\ issued = << >>
    /\ last = NoCall
    /\ InitScreens
    /\ width = MinWidth

Next ==
    \/ AppMount
    \/ FireScheduleCountdown
    \/ FireScheduleRefresh
    \/ FireGameCountdown
    \/ FireGameRefresh
    \/ ScheduleRefreshKey
    \/ PrevDayKey
    \/ NextDayKey
    \/ TodayKey
    \/ \E gs \in GameStates : SelectGame(gs)
    \/ GameRefreshKey
    \/ GameBack
    \/ Quit
    \/ RunScheduleWorker(MaxTime)
    \/ RunGameWorker(MaxTime)
    \/ sched.state # "new" /\ Tick(MaxTime)

Spec == Init /\ [][Next]_vars

-----------------------------------------------------------------------------
(* The methods of the client: any caller calls any method at any time      *)

\* a caller calls a method of the client
Call(method) ==
    \E resp \in Responses, d \in 0..MaxLatency :
        LET r == Method(method, cache, now, resp, d)
        IN  /\ Cardinality(DOMAIN cache \cup {r.url}) <= MaxEntries
            /\ r.done <= MaxMethodClock
            /\ cache' = r.cache
            /\ now' = r.done
            /\ issued' = IF r.outcome = "fetched"
                         THEN Store(issued, r.url, r.done, r.value)
                         ELSE issued
            /\ last' = [NoCall EXCEPT
                            !.op = "get", !.url = r.url, !.ttl = r.ttl,
                            !.at = now, !.done = r.done,
                            !.outcome = r.outcome, !.value = r.value,
                            !.prior = Lookup(issued, r.url),
                            !.before = cache, !.method = method]
            /\ UNCHANGED screenVars

NextMethods ==
    \/ \E method \in Methods : Call(method)
    \/ ClearCache
    \/ Tick(MaxMethodClock)

SpecMethods == InitClient /\ [][NextMethods]_vars

-----------------------------------------------------------------------------
(* Navigation: the application root, the screens it pushes and the client *)
(* each of them holds.  A screen is an object [class, client]; client is  *)
(* the index in clients of the NHLClient it was constructed with.         *)

\* NHLClient(): a new object, with an empty cache, and the reference to it
NewClient(cs) == [clients |-> Append(cs, << >>), ref |-> Len(cs) + 1]

\* a mutant of Pushed: the screen gets a client of its own
Pushed_with_own_client(class, client, cs) ==
    [screen |-> [class |-> class, client |-> NewClient(cs).ref],
     clients |-> NewClient(cs).clients]

\* push_screen(<class>(self.client, ...)): the constructor of every screen
\* stores the client it is given
Pushed(class, client, cs) ==
    [screen |-> [class |-> class, client |-> client], clients |-> cs]

\* FaceoffApp.__init__: self.client = NHLClient()
AppInit ==
    [app |-> [NoApp EXCEPT !.client = NewClient(<< >>).ref],
     clients |-> NewClient(<< >>).clients]

\* the screens a ScheduleScreen pushes: on_game_card_selected,
\* action_standings, action_stats, action_teams
ScheduleScreenPushes ==
    {"PreGameScreen", "GameScreen", "StandingsScreen", "StatsScreen",
     "TeamsScreen"}

\* TeamsScreen.on_team_card_selected
TeamsScreenPushes == {"TeamDetailScreen"}

\* TeamDetailScreen.on_player_row_selected
TeamDetailScreenPushes == {"PlayerScreen"}

Pushes(class) ==
    CASE class = "ScheduleScreen" -> ScheduleScreenPushes
      [] class = "TeamsScreen" -> TeamsScreenPushes
      [] class = "TeamDetailScreen" -> TeamDetailScreenPushes
      [] OTHER -> {}

\* the requests of the fetch routine of each screen, in order
ScheduleScreenRequests == <<"get_schedule">>

GameScreenRequests ==
    <<"get_game_boxscore", "get_game_play_by_play", "get_game_landing">>

PreGameScreenRequests == <<"get_game_landing">>

StandingsScreenRequests == <<"get_standings">>

StatsScreenRequests ==
    <<"get_skater_stats_leaders", "get_goalie_stats_leaders">>

TeamsScreenRequests == <<"get_standings">>

TeamDetailScreenRequests == <<"get_team_roster", "get_team_month_schedule">>

PlayerScreenRequests == <<"get_player_landing", "get_player_game_log">>

Requests(class) ==
    CASE class = "ScheduleScreen" -> ScheduleScreenRequests
      [] class = "GameScreen" -> GameScreenRequests
      [] class = "PreGameScreen" -> PreGameScreenRequests
      [] class = "StandingsScreen" -> StandingsScreenRequests
      [] class = "StatsScreen" -> StatsScreenRequests
      [] class = "TeamsScreen" -> TeamsScreenRequests
      [] class = "TeamDetailScreen" -> TeamDetailScreenRequests
      [] class = "PlayerScreen" -> PlayerScreenRequests

\* the cache c after the requests ms made one after the other at time t,
\* each answered by resp when it goes to the network; an exception ends
\* the routine
RECURSIVE Fetched(_, _, _, _)
Fetched(ms, c, t, resp) ==
    IF ms = << >> THEN c
    ELSE LET r == Method(Head(ms), c, t, resp, 0)
         IN  IF r.outcome = "error" THEN r.cache
             ELSE Fetched(Tail(ms), r.cache, t, resp)

NavTop == app.screen_stack[Len(app.screen_stack)]

\* the state after FaceoffApp.__init__
InitNavigation ==
    /\ now = 0
    /\ cache = << >>
    /\ issued = << >>
    /\ last = NoCall
    /\ sched = NewScheduleScreen
    /\ game = NewGameScreen("FINAL")
    /\ teams = NewTeamsScreen
    /\ standings = NewStandingsScreen
    /\ stack = << >>
    /\ workers = << >>
    /\ width = MinWidth
    /\ ev = NoEvent
    /\ run = NoRun
    /\ keys = 0
    /\ app = AppInit.app
    /\ clients = AppInit.clients

\* a screen is pushed by the holder of the reference client; its on_mount
\* schedules its fetch routine
Push(class, client) ==
    /\ Len(workers) < MaxNavQueue
    /\ LET p == Pushed(class, client, clients)
       IN  /\ clients' = p.clients
           /\ app' = [app EXCEPT
                          !.screen_stack = Append(app.screen_stack, p.screen)]
           /\ workers' = Append(workers, Worker(p.screen, "mount", now))
           /\ ev' = Event("mount", p.screen)
    /\ UNCHANGED <<clientVars, sched, game, teams, standings, stack, width,
                   run, keys>>

\* FaceoffApp.on_mount: push_screen(ScheduleScreen(self.client))
NavAppMount ==
    /\ app.screen_stack = << >>
    /\ Push("ScheduleScreen", app.client)

\* a handler of the active screen pushes another screen
NavPush(class) ==
    /\ app.screen_stack # << >>
    /\ class \in Pushes(NavTop.class)
    /\ Push(class, NavTop.client)

\* action_back of every screen but the ScheduleScreen: pop_screen()
NavBack ==
    /\ Len(app.screen_stack) > 1
    /\ app' = [app EXCEPT !.screen_stack =
                   SubSeq(app.screen_stack, 1, Len(app.screen_stack) - 1)]
    /\ ev' = Event("unmount", NavTop)
    /\ UNCHANGED <<clientVars, sched, game, teams, standings, stack, workers,
                   width, run, keys, clients>>

\* action_refresh of the active screen: self.client.clear_cache(), then the
\* fetch routine is scheduled
NavRefresh ==
    /\ app.screen_stack # << >>
    /\ Len(workers) < MaxNavQueue
    /\ clients' = [clients EXCEPT
                       ![NavTop.client] =
                           ClearedCache(clients[NavTop.client], now)]
    /\ workers' = Append(workers, Worker(NavTop, "manual", now))
    /\ ev' = [Event("manual_refresh", NavTop) EXCEPT
                  !.entries = Cardinality(DOMAIN clients[NavTop.client])]
    /\ UNCHANGED <<clientVars, sched, game, teams, standings, stack, width,
                   run, keys, app>>

\* the oldest scheduled fetch routine runs, on the client of its screen
RunNavWorker ==
    /\ workers # << >>
    /\ \E resp \in Responses :
           LET w == Head(workers).screen
               c == Fetched(Requests(w.class), clients[w.client], now, resp)
           IN  /\ Cardinality(DOMAIN c) <= MaxNavEntries
               /\ clients' = [clients EXCEPT ![w.client] = c]
    /\ workers' = Tail(workers)
    /\ ev' = Event("fetch", Head(workers).screen)
    /\ UNCHANGED <<clientVars, sched, game, teams, standings, stack, width,
                   run, keys, app>>

NextNavigation ==
    \/ NavAppMount
    \/ \E class \in ScheduleScreenPushes \cup TeamsScreenPushes
                        \cup TeamDetailScreenPushes : NavPush(class)
    \/ NavBack
    \/ NavRefresh
    \/ RunNavWorker

SpecNavigation == InitNavigation /\ [][NextNavigation]_vars

-----------------------------------------------------------------------------
(* The StandingsScreen: resize events, its fetch routine and manual refresh *)

StandingsWidths == MinStandingsWidth..MaxStandingsWidth

\* the StandingsScreen has just been pushed by the ScheduleScreen and
\* mounted, in a terminal of any width
InitStandings ==
    /\ now = 0
    /\ cache = << >>
    /\ issued = << >>
    /\ last = NoCall
    /\ sched = MountedSchedule.screen
    /\ game = NewGameScreen("FINAL")
    /\ teams = NewTeamsScreen
    /\ standings = StandingsOnMount(NewStandingsScreen, << >>, 0).screen
    /\ workers = StandingsOnMount(NewStandingsScreen, << >>, 0).workers
    /\ stack = <<"schedule", "standings">>
    /\ width \in StandingsWidths
    /\ ev = NoEvent
    /\ run = NoRun
    /\ keys = 0
    /\ clients = << >>
    /\ app = NoApp

\* the terminal is resized to new_width columns
ResizeStandings(new_width) ==
    /\ Top = "standings"
    /\ LET r == StandingsOnResize(standings, new_width)
       IN  /\ standings' = r.screen
           /\ ev' = [Event("resize", "standings") EXCEPT
                         !.anchor = standings.last_width,
                         !.new_width = new_width,
                         !.handled = r.handled,
                         !.relayout = r.relayout]
    /\ width' = new_width
    /\ UNCHANGED <<clientVars, sched, game, teams, stack, workers, run, keys,
                   clients, app>>

\* r on the StandingsScreen: action_refresh
StandingsRefreshKey ==
    /\ Key("standings")
    /\ LET r == StandingsActionRefresh(standings, cache, workers, now)
       IN  /\ standings' = r.screen
           /\ cache' = r.cache
           /\ workers' = r.workers
    /\ ev' = Event("manual_refresh", "standings")
    /\ UNCHANGED <<now, issued, last, sched, game, teams, stack, width, run,
                   clients, app>>

\* the event loop runs the oldest scheduled fetch routine, of StandingsScreen
RunStandingsWorker ==
    /\ workers # << >>
    /\ Head(workers).screen = "standings"
    /\ \E resp \in Responses :
           LET f == StandingsFetchStandings(standings, cache, now, resp, 0,
                                            width)
           IN  /\ standings' = f.screen
               /\ cache' = f.cache
               /\ run' = [screen |-> "standings", by |-> Head(workers).by,
                          at |-> Head(workers).at, reqs |-> f.reqs,
                          ok |-> f.ok]
    /\ workers' = Tail(workers)
    /\ ev' = Idle(ev)
    /\ UNCHANGED <<now, issued, last, sched, game, teams, stack, width, keys,
                   clients, app>>

NextStandings ==
    \/ \E w \in StandingsWidths : ResizeStandings(w)
    \/ StandingsRefreshKey
    \/ RunStandingsWorker

SpecStandings == InitStandings /\ [][NextStandings]_vars

-----------------------------------------------------------------------------
(* The countdown: the timer callbacks and the refresh key taken as         *)
(* functions of the screen they act on, applied in any order to a screen   *)
(* at any countdown and any date, whatever its timers                      *)

InitCountdown ==
    /\ InitNav
    /\ now = 0
    /\ cache = << >>
    /\ issued = << >>
    /\ last = NoCall
    /\ teams = NewTeamsScreen
    /\ stack = <<"schedule", "game">>
    /\ workers = << >>
    /\ width = MinWidth
    /\ ev = NoEvent
    /\ run = NoRun
    /\ keys = 0
    /\ \E countdown \in 0..REFRESH_INTERVAL, date \in -MaxDays..MaxDays :
           /\ sched = ScheduleUpdateSubtitle(
                          [MountedSchedule.screen EXCEPT
                               !.countdown = countdown,
                               !.current_date = Today + date])
           /\ game = GameUpdateSubtitle(
                         [GameOnMount(NewGameScreen("LIVE"), <<>>, 0).screen
                              EXCEPT !.countdown = countdown])

\* _update_countdown of a screen is called
UpdateCountdown(screen) ==
    /\ IF screen = "schedule"
       THEN sched' = ScheduleUpdateCountdown(sched) /\ UNCHANGED game
       ELSE game' = GameUpdateCountdown(game) /\ UNCHANGED sched
    /\ ev' = Refreshed("countdown", screen, ScreenOf(screen).countdown, cache)
    /\ UNCHANGED navVars
    /\ UNCHANGED <<clientVars, teams, stack, workers, width, run, keys>>

\* _auto_refresh of a screen is called
AutoRefresh(screen) ==
    /\ Len(workers) < MaxQueue
    /\ LET r == IF screen = "schedule"
                THEN ScheduleAutoRefresh(sched, cache, workers, now)
                ELSE GameAutoRefresh(game, cache, workers, now)
       IN  /\ IF screen = "schedule"
              THEN sched' = r.screen /\ UNCHANGED game
              ELSE game' = r.screen /\ UNCHANGED sched
           /\ cache' = r.cache
           /\ workers' = r.workers
           /\ ev' = Refreshed("auto_refresh", screen,
                              ScreenOf(screen).countdown, r.cache)
    /\ UNCHANGED navVars
    /\ UNCHANGED <<now, issued, last, teams, stack, width, run, keys>>

\* action_refresh of a screen is called
ActionRefresh(screen) ==
    /\ Len(workers) < MaxQueue
    /\ LET r == IF screen = "schedule"
                THEN ScheduleActionRefresh(sched, cache, workers, now)
                ELSE GameActionRefresh(game, cache, workers, now)
       IN  /\ IF screen = "schedule"
              THEN sched' = r.screen /\ UNCHANGED game
              ELSE game' = r.screen /\ UNCHANGED sched
           /\ cache' = r.cache
           /\ workers' = r.workers
           /\ ev' = Refreshed("manual_refresh", screen,
                              ScreenOf(screen).countdown, r.cache)
    /\ UNCHANGED navVars
    /\ UNCHANGED <<now, issued, last, teams, stack, width, run, keys>>

NextCountdown ==
    \E screen \in {"schedule", "game"} :
        \/ UpdateCountdown(screen)
        \/ AutoRefresh(screen)
        \/ ActionRefresh(screen)

SpecCountdown == InitCountdown /\ [][NextCountdown]_vars

-----------------------------------------------------------------------------
(* Properties of the client, under SpecClient *)

\* the entry of the call's url that the cache held when the call began
EntryBefore == Lookup(last.before, last.url)

\* C1: a fetch of a path made less than ttl after a fetch of the same path
\* that went to the network, with no clear_cache in between, issues no
\* network call of its own (one call for the two fetches) and returns the
\* value the first fetch returned.
C1_SecondFetchWithinTtlIsServedFromCache ==
    (/\ last.op = "get"
     /\ last.prior # <<>>
     /\ last.at - last.prior[1][1] < last.ttl)
    => (/\ last.outcome = "cached"
        /\ last.value = last.prior[1][2]
        /\ cache = last.before)

\* the scenario of C1: ttl 10, /scoreboard/now fetched again 3 s later
C1_Witness ==
    /\ last.op = "get"
    /\ last.url = Url("/scoreboard/now")
    /\ last.ttl = LiveTtl
    /\ last.prior # <<>>
    /\ last.at - last.prior[1][1] = 3
    /\ last.outcome = "cached"
    /\ last.value = last.prior[1][2]

\* C2: an entry is stale exactly when now - fetchedAt >= ttl: a fetch is
\* served from the cache exactly when the entry of its path is younger than
\* ttl; a fetch of a path whose entry is stale issues a network call, and the
\* response replaces the entry, its fetchedAt being the time of the response.
C2_StaleEntryIsRefetched ==
    last.op = "get" =>
        /\ (last.outcome = "cached") <=>
               (EntryBefore # <<>> /\ last.at - EntryBefore[1][1] < last.ttl)
        /\ (EntryBefore # <<>> /\ last.at - EntryBefore[1][1] >= last.ttl)
               => last.outcome \in {"fetched", "error"}
        /\ last.outcome = "fetched" =>
               /\ last.url \in DOMAIN cache
               /\ cache[last.url] = <<last.done, last.value>>
               /\ IsFresh(cache, last.url, last.ttl, last.done)

\* an entry of age exactly ttl was refetched and its fetchedAt replaced
C2_Witness ==
    /\ last.op = "get"
    /\ EntryBefore # <<>>
    /\ last.at - EntryBefore[1][1] = last.ttl
    /\ last.outcome = "fetched"
    /\ cache[last.url][1] = last.done
    /\ cache[last.url][1] > EntryBefore[1][1]

\* C3: clear_cache leaves the cache empty whatever it held, and a fetch of a
\* path for which no response was stored since the last clear_cache always
\* issues a network call.
C3_ClearThenFetchGoesToNetwork ==
    /\ last.op = "clear" => DOMAIN cache = {}
    /\ (last.op = "get" /\ last.prior = <<>>) => last.outcome # "cached"

\* a fetch right after a clear_cache that removed a still fresh entry of its
\* path went to the network
C3_Witness ==
    /\ last.op = "get"
    /\ last.removed # <<>>
    /\ last.at - last.removed[1][1] < last.ttl
    /\ last.outcome = "fetched"

\* C4: a fetch whose network call fails leaves the cache exactly as it was:
\* no entry is added, removed or changed, and the path is still not fresh,
\* so the next fetch of it goes to the network again.
C4_FailedFetchLeavesCacheUnmodified ==
    (last.op = "get" /\ last.outcome = "error") =>
        /\ cache = last.before
        /\ ~IsFresh(cache, last.url, last.ttl, last.done)

\* a failed fetch of a path whose stale entry is still in the cache, beside
\* an entry of another path
C4_Witness ==
    /\ last.op = "get"
    /\ last.outcome = "error"
    /\ last.url \in DOMAIN cache
    /\ cache[last.url] = EntryBefore[1]
    /\ Cardinality(DOMAIN cache) = 2

-----------------------------------------------------------------------------
(* Properties of the resize handlers, under SpecResize *)

C8_DeltaMeasuredFromLastRelayout ==
    (ev.kind = "resize" /\ ev.screen = "game") =>
        /\ ev.relayout <=> Abs(ev.new_width - ev.relaid_before) >= 20
        /\ game.last_width = ev.relaid.game

\* the scenario of C8: the last relayout was at 80, the width then moved
\* without a relayout, and a step of less than 20 columns to 102 lays out
C8_Witness ==
    /\ ev.kind = "resize"
    /\ ev.screen = "game"
    /\ ev.relaid_before = 80
    /\ ev.small_step
    /\ ev.new_width = 102
    /\ ev.relayout
    /\ game.last_width = 102

-----------------------------------------------------------------------------
(* Properties of the timers and the refreshes, under Spec *)

\* the fetch routine a refresh of the screen schedules, last in the queue
Scheduled(screen, by) ==
    /\ Len(workers) = ev.queued + 1
    /\ workers[Len(workers)] = Worker(screen, by, now)

\* every request of the routine that just ran went to the network
AllFromNetwork == \A i \in DOMAIN run.reqs : run.reqs[i].outcome # "cached"

\* no request of the routine that just ran was answered from an entry
\* stored before the routine was scheduled
NoneFromBefore ==
    \A i \in DOMAIN run.reqs :
        run.reqs[i].outcome = "cached" => run.reqs[i].stored >= run.at

\* C5: once a screen that started its timers is unmounted, neither its
\* refresh callback nor its countdown callback fires again: both timers
\* have been stopped, and every callback that fires is one of a mounted
\* screen
C5_NoCallbackAfterUnmount ==
    /\ \A name \in {"schedule", "game"} :
           ScreenOf(name).state = "unmounted" =>
               /\ ~ScreenOf(name).refresh_timer.active
               /\ ~ScreenOf(name).countdown_timer.active
    /\ ev.kind \in {"countdown", "auto_refresh"} =>
           ScreenOf(ev.screen).state = "mounted"

\* the GameScreen was unmounted with both timers started, and the time at
\* which its refresh timer would have fired has passed
C5_Witness ==
    /\ game.state = "unmounted"
    /\ game.refresh_timer.set
    /\ game.countdown_timer.set
    /\ now > game.refresh_timer.due
    /\ sched.state = "mounted"

\* C6, as stated: a manual refresh sets the countdown to 30 and clears the
\* cache, and every request of the fetch routine it triggers goes to the
\* network
C6_Original ==
    /\ ev.kind = "manual_refresh" =>
           /\ ScreenOf(ev.screen).countdown = REFRESH_INTERVAL
           /\ cache = << >>
           /\ Scheduled(ev.screen, "manual")
    /\ run.by = "manual" => AllFromNetwork

\* C6, amended: a manual refresh, whatever the countdown, sets the countdown
\* to 30, clears the cache and schedules the fetch routine; when the routine
\* runs, none of its requests is answered from an entry stored before the
\* refresh, but one may be answered from an entry that a routine scheduled
\* earlier stored in between
C6_ManualRefreshClearsBeforeFetch ==
    /\ ev.kind = "manual_refresh" =>
           /\ ScreenOf(ev.screen).countdown = REFRESH_INTERVAL
           /\ cache = << >>
           /\ Scheduled(ev.screen, "manual")
    /\ run.by = "manual" => NoneFromBefore

\* a manual refresh at countdown 12, with entries in the cache
C6_Witness ==
    /\ ev.kind = "manual_refresh"
    /\ ev.countdown = 12
    /\ ev.entries > 0
    /\ ScreenOf(ev.screen).countdown = REFRESH_INTERVAL
    /\ cache = << >>

\* C9, as stated: a manual refresh and an automatic refresh of the same
\* screen state leave the same countdown and cache and have the same
\* requests issued, on the ScheduleScreen and on the GameScreen
C9_Original ==
    ev.kind \in {"manual_refresh", "auto_refresh"} => ev.converges

\* C9, amended: a manual refresh and an automatic refresh of the same screen
\* state leave the same countdown and cache and have the same requests
\* issued on the GameScreen, and on the ScheduleScreen when it shows today;
\* on another date the automatic refresh only resets the countdown, so the
\* two differ
C9_RefreshesConvergeOnToday ==
    ev.kind \in {"manual_refresh", "auto_refresh"} =>
        (ev.converges <=>
             (ev.screen = "game" \/ sched.current_date = Today))

\* an automatic refresh of the ScheduleScreen showing today, with entries
\* in the cache
C9_Witness ==
    /\ ev.kind = "auto_refresh"
    /\ ev.screen = "schedule"
    /\ sched.current_date = Today
    /\ ev.entries > 0
    /\ ev.converges

\* C10, as stated: each firing of a screen's refresh timer clears the cache
\* and schedules the screen's fetch routine, whose requests go to the
\* network
C10_Original ==
    /\ ev.kind = "auto_refresh" =>
           /\ cache = << >>
           /\ Scheduled(ev.screen, "auto")
    /\ run.by = "auto" => AllFromNetwork

\* C10, amended: each firing of the refresh timer of the GameScreen, and of
\* the ScheduleScreen when it shows today, clears the cache and schedules
\* the screen's fetch routine, none of whose requests is answered from an
\* entry stored before the firing; on another date the firing of the
\* ScheduleScreen's timer leaves the cache alone and schedules nothing
C10_RefreshTimerClearsAndRefetches ==
    /\ ev.kind = "auto_refresh" =>
           IF ev.screen = "game" \/ sched.current_date = Today
           THEN /\ cache = << >>
                /\ Scheduled(ev.screen, "auto")
           ELSE /\ ev.cache_same
                /\ Len(workers) = ev.queued
    /\ run.by = "auto" => NoneFromBefore

\* the refresh timer of the GameScreen fired with entries in the cache,
\* and left it empty
C10_Witness ==
    /\ ev.kind = "auto_refresh"
    /\ ev.screen = "game"
    /\ ev.entries > 0
    /\ cache = << >>

\* a fetch routine has just run, and nothing has happened since
JustRan == run.screen # "" /\ ev.kind = "none"

\* a request of the routine that has just run failed
RunFailed ==
    /\ JustRan
    /\ \E i \in DOMAIN run.reqs : run.reqs[i].outcome = "error"

-----------------------------------------------------------------------------
(* Properties of the countdown, under SpecCountdown *)

\* a refresh, automatic or manual, leaves the countdown at the interval,
\* and a call of _update_countdown leaves it one lower, or at the interval
\* when it was 0
CountdownSteps ==
    /\ ev.kind \in {"auto_refresh", "manual_refresh"} =>
           ScreenOf(ev.screen).countdown = REFRESH_INTERVAL
    /\ ev.kind = "countdown" =>
           ScreenOf(ev.screen).countdown =
               IF ev.countdown = 0 THEN REFRESH_INTERVAL
               ELSE ev.countdown - 1

\* C12, as stated: every refresh sets the countdown to the interval, every
\* tick lowers it by one or wraps it from 0 to the interval, and after
\* every tick the subtitle shows the new value
C12_Original ==
    /\ CountdownSteps
    /\ ev.kind = "countdown" =>
           ScreenOf(ev.screen).sub_title =
               RefreshingIn(ScreenOf(ev.screen).countdown)

\* C12, amended: every refresh sets the countdown to the interval, every
\* tick lowers it by one or wraps it from 0 to the interval, and after
\* every tick the subtitle is set again: to the new value on the GameScreen
\* and on the ScheduleScreen showing today, to the empty string on the
\* ScheduleScreen showing another date
C12_CountdownStepsAndSubtitle ==
    /\ CountdownSteps
    /\ ev.kind = "countdown" =>
           ScreenOf(ev.screen).sub_title =
               IF ev.screen = "game" \/ sched.current_date = Today
               THEN RefreshingIn(ScreenOf(ev.screen).countdown)
               ELSE << >>

\* a tick of the ScheduleScreen at countdown 0 wrapped it to the interval,
\* and the subtitle shows it
C12_Witness ==
    /\ ev.kind = "countdown"
    /\ ev.screen = "schedule"
    /\ ev.countdown = 0
    /\ sched.countdown = REFRESH_INTERVAL
    /\ sched.sub_title = RefreshingIn(REFRESH_INTERVAL)

-----------------------------------------------------------------------------
(* Properties of the refresh timer, under Spec *)

-----------------------------------------------------------------------------
(* Properties of the ttl and of the keys of the cache, under SpecClient *)

\* C15: the ttl of a call is its own override, or the default of 30 s when
\* it has none, whatever overrides earlier calls were given; whether the
\* call is served from the cache depends on the entry of its own url and on
\* that ttl alone; and the call leaves the entry of every other url as it
\* was
C15_TtlOverrideIsPerCall ==
    last.op = "get" =>
        /\ last.ttl = IF last.arg = None THEN DefaultTtl ELSE last.arg[1]
        /\ last.outcome = "cached" <=>
               /\ EntryBefore # << >>
               /\ last.at - EntryBefore[1][1] < last.ttl
        /\ \A u \in DOMAIN last.before \ {last.url} :
               /\ u \in DOMAIN cache
               /\ cache[u] = last.before[u]

\* a call with an override of 10 s on one url, then a call without override
\* on another url, whose entry is 10 s old or more and is still served
C15_Witness ==
    /\ last.op = "get"
    /\ last.arg = None
    /\ last.prev_arg = Some(LiveTtl)
    /\ last.prev_url \notin {"", last.url}
    /\ last.outcome = "cached"
    /\ last.at - EntryBefore[1][1] >= LiveTtl

\* C16: the cache holds one entry for each url it has, the url being the
\* base URL followed by the endpoint path and nothing else: a call that
\* goes to the network leaves one entry for its url, the one it fetched,
\* in place of the entry that was there, and adds no other; a call served
\* from the cache or failed leaves the keys as they were; and a call is
\* served the entry of its path whichever ttl it was given
C16_OneEntryPerPath ==
    /\ DOMAIN cache \subseteq {Url(e) : e \in Endpoints}
    /\ \A e1, e2 \in Endpoints : Url(e1) = Url(e2) => e1 = e2
    /\ (last.op = "get" /\ last.outcome = "fetched") =>
           /\ DOMAIN cache = DOMAIN last.before \cup {last.url}
           /\ cache[last.url] = <<last.done, last.value>>
    /\ (last.op = "get" /\ last.outcome \in {"cached", "error"}) =>
           DOMAIN cache = DOMAIN last.before
    /\ (last.op = "get" /\ last.outcome = "cached") =>
           /\ EntryBefore = <<cache[last.url]>>
           /\ last.value = cache[last.url][2]

\* a call found a stale entry for its url beside the entry of the other
\* url and replaced it, and the cache still holds two entries
C16_Witness ==
    /\ last.op = "get"
    /\ last.outcome = "fetched"
    /\ EntryBefore # << >>
    /\ EntryBefore # <<cache[last.url]>>
    /\ DOMAIN cache = DOMAIN last.before
    /\ Cardinality(DOMAIN cache) = 2

-----------------------------------------------------------------------------
(* Properties of the methods of the client, under SpecMethods *)

LiveMethods ==
    {"get_scoreboard", "get_game_boxscore", "get_game_play_by_play",
     "get_game_landing"}

\* C17: a call of get_scoreboard, get_game_boxscore, get_game_play_by_play
\* or get_game_landing is served from the cache exactly when the entry of
\* its url is less than 10 s old, and a call of any other method exactly
\* when it is less than 30 s old
C17_TtlOfEachEndpoint ==
    last.method # "" =>
        /\ last.ttl = IF last.method \in LiveMethods THEN 10 ELSE 30
        /\ last.outcome = "cached" <=>
               /\ EntryBefore # << >>
               /\ last.at - EntryBefore[1][1]
                      < IF last.method \in LiveMethods THEN 10 ELSE 30

\* get_game_landing found an entry exactly 10 s old and fetched again
C17_Witness ==
    /\ last.method = "get_game_landing"
    /\ last.outcome = "fetched"
    /\ EntryBefore # << >>
    /\ last.at - EntryBefore[1][1] = 10

-----------------------------------------------------------------------------
(* The refresh session of a screen, under Spec *)

\* the screen by that name is one that refreshes itself: the ScheduleScreen
\* always, the GameScreen when its game is PRE, LIVE or CRIT; the state of
\* the game is that of the selected card until the first fetch
Refreshing(name) ==
    name = "schedule" \/ game.game_state \in {"PRE", "LIVE", "CRIT"}

\* both timers of the screen are running, every 30 s and every second
Active(s) ==
    /\ s.refresh_timer.active /\ s.refresh_timer.interval = 30
    /\ s.countdown_timer.active /\ s.countdown_timer.interval = 1

\* C18 as stated: every mounted screen has both of its timers running
C18_Original ==
    \A name \in {"schedule", "game"} :
        ScreenOf(name).state = "mounted" => Active(ScreenOf(name))

\* C18: mounting a ScheduleScreen, or a GameScreen on a game that is PRE,
\* LIVE or CRIT, starts the refresh timer, first due 30 s later and every
\* 30 s, and the countdown timer, first due 1 s later and every second, and
\* sets the countdown to 30; the timers that mounting started both run for
\* as long as the screen is mounted and neither runs when it is not;
\* mounting a GameScreen on any other game starts no timer, and none is
\* started later
C18_MountStartsSession ==
    /\ ev.kind = "mount" =>
           LET s == ScreenOf(ev.screen)
           IN  IF Refreshing(ev.screen)
               THEN /\ s.refresh_timer.set /\ s.countdown_timer.set
                    /\ s.refresh_timer.due = now + 30
                    /\ s.countdown_timer.due = now + 1
                    /\ s.countdown = 30
                    /\ Active(s)
               ELSE /\ s.refresh_timer = NoTimer
                    /\ s.countdown_timer = NoTimer
    /\ \A name \in {"schedule", "game"} :
           LET s == ScreenOf(name)
           IN  /\ s.refresh_timer.set <=> s.countdown_timer.set
               /\ s.refresh_timer.set =>
                      s.refresh_timer.start = s.countdown_timer.start
               /\ IF s.state = "mounted" /\ s.refresh_timer.set
                  THEN Active(s)
                  ELSE ~s.refresh_timer.active /\ ~s.countdown_timer.active

\* the GameScreen of a live game has just been mounted
C18_Witness ==
    /\ ev.kind = "mount" /\ ev.screen = "game"
    /\ game.state = "mounted"
    /\ game.game_state = "LIVE"
    /\ Active(game)
    /\ game.countdown = 30

-----------------------------------------------------------------------------
(* A fetch routine and the screen that scheduled it, under Spec *)

\* the oldest fetch routine, scheduled by the screen of that name, runs in
\* this step
Runs(name) ==
    /\ workers # << >>
    /\ workers' = Tail(workers)
    /\ Head(workers).screen = name

\* C19 as stated: a fetch routine that runs when its screen is no longer
\* mounted writes no data field and no widget of that screen
C19_Original ==
    [][/\ Runs("schedule") /\ sched.state # "mounted" => sched' = sched
       /\ Runs("game") /\ game.state # "mounted" => game' = game]_vars

\* C20 as stated: a request that is outstanding does not hold up the event
\* loop, so every countdown tick and every refresh-timer tick runs at the
\* second at which its timer is due
C20_Original ==
    ev.kind \in {"countdown", "auto_refresh"} => now = ev.due

-----------------------------------------------------------------------------
(* Properties of navigation, under SpecNavigation *)

\* C21: the application root has created exactly one client, every screen on
\* the screen stack, and so every screen at the time it is created, holds
\* the reference to that client, every fetch routine scheduled runs on it,
\* and a manual refresh on any screen leaves no entry in any cache,
\* whichever screens fetched the entries
C21_OneSharedClient ==
    /\ Len(clients) = 1
    /\ app.client = 1
    /\ \A i \in DOMAIN app.screen_stack :
           app.screen_stack[i].client = app.client
    /\ \A i \in DOMAIN workers : workers[i].screen.client = app.client
    /\ ev.kind = "manual_refresh" =>
           \A i \in DOMAIN clients : clients[i] = << >>

\* the PlayerScreen, four screens deep, refreshes when the cache holds three
\* entries, more than its own fetch routine stores
C21_Witness ==
    /\ ev.kind = "manual_refresh"
    /\ ev.screen.class = "PlayerScreen"
    /\ ev.entries = 3
    /\ Len(app.screen_stack) = 4
    /\ clients[app.client] = << >>

-----------------------------------------------------------------------------
(* The data of a screen when its fetch routine fails, under Spec *)

\* a request of the routine that runs in this step fails
RequestFails ==
    \E i \in DOMAIN run'.reqs : run'.reqs[i].outcome = "error"

\* C22 as stated: a fetch routine in which a request fails changes none of
\* the data fields of its screen: games of the ScheduleScreen; boxscore,
\* play_by_play, scoring_summary and the game state of the GameScreen
C22_Original ==
    [][/\ Runs("schedule") /\ RequestFails => sched'.games = sched.games
       /\ Runs("game") /\ RequestFails =>
              /\ game'.boxscore = game.boxscore
              /\ game'.play_by_play = game.play_by_play
              /\ game'.scoring_summary = game.scoring_summary
              /\ game'.game_state = game.game_state]_vars

-----------------------------------------------------------------------------
(* The ScheduleScreen on a date other than today, under Spec *)

\* C23: on the ScheduleScreen showing a date other than today, a firing of
\* the refresh timer sets the countdown to 30, leaves the cache and the
\* scheduled fetch routines as they were and leaves the subtitle empty; a
\* manual refresh there sets the countdown to 30, empties the cache and
\* schedules one more fetch routine
C23_AutoRefreshOffToday ==
    ev.screen = "schedule" /\ sched.current_date # Today =>
        /\ ev.kind = "auto_refresh" =>
               /\ sched.countdown = 30
               /\ ev.cache_same
               /\ Cardinality(DOMAIN cache) = ev.entries
               /\ Len(workers) = ev.queued
               /\ sched.sub_title = << >>
        /\ ev.kind = "manual_refresh" =>
               /\ sched.countdown = 30
               /\ cache = << >>
               /\ Len(workers) = ev.queued + 1
               /\ workers[Len(workers)] = Worker("schedule", "manual", now)
               /\ sched.sub_title = << >>

\* the refresh timer fires on another date, the countdown below 30 and an
\* entry in the cache
C23_Witness ==
    /\ ev.kind = "auto_refresh" /\ ev.screen = "schedule"
    /\ sched.current_date # Today
    /\ ev.countdown < 30
    /\ ev.entries > 0
    /\ cache # << >>

-----------------------------------------------------------------------------
(* The layout of the GameScreen across its breakpoint, under SpecResize *)

\* C24 as stated: once the box score is loaded, after every resize event the
\* GameScreen handled its panels are side by side exactly when its content
\* is at least 100 columns wide
C24_Original ==
    /\ ev.kind = "resize" /\ ev.screen = "game" /\ ev.handled
    /\ game.boxscore # NoData
    => (game.layout = "wide" <=> width >= 100)

-----------------------------------------------------------------------------
(* The layout of the StandingsScreen, under SpecStandings *)

\* C25 as stated: once the standings are loaded and rendered, the recorded
\* width classifies as wide or narrow as the views were last rendered, and
\* after every resize event the screen handled the conferences are side by
\* side exactly when the screen is at least 150 columns wide
C25_Original ==
    standings.standings # NoData =>
        /\ standings.last_width >= 150 <=> standings.layout = "wide"
        /\ ev.kind = "resize" /\ ev.handled =>
               (standings.layout = "wide" <=> width >= 150)

-----------------------------------------------------------------------------
(* Whether a GameScreen refreshes itself, under Spec *)

\* C26: the timers of a GameScreen are started by its mount exactly when the
\* game state it is opened with is PRE, LIVE or CRIT, and no later step
\* starts one; a countdown or refresh callback of the GameScreen fires only
\* on timers started by the mount, whatever state a later fetch reports;
\* timers that were started stay running, the refresh timer due every 30 s
\* from the mount, for as long as the screen is mounted, whatever state a
\* later fetch reports
C26_RefreshDecidedAtMount ==
    /\ [](/\ ev.kind = "mount" /\ ev.screen = "game" =>
                 (game.refresh_timer.set
                      <=> game.game_state \in {"PRE", "LIVE", "CRIT"})
          /\ ev.kind \in {"countdown", "auto_refresh"} /\ ev.screen = "game"
                 => game.refresh_timer.set /\ game.countdown_timer.set
          /\ game.state = "mounted" /\ game.refresh_timer.set =>
                 /\ game.refresh_timer.active
                 /\ game.countdown_timer.active
                 /\ (game.refresh_timer.due - game.refresh_timer.start)
                        % 30 = 0)
    /\ [][game'.refresh_timer.set # game.refresh_timer.set
              \/ game'.countdown_timer.set # game.countdown_timer.set
          => ev'.kind = "mount" /\ ev'.screen = "game"]_vars

\* the refresh timer of a GameScreen fires after a fetch reported the game
\* as FINAL
C26_Witness ==
    /\ ev.kind = "auto_refresh" /\ ev.screen = "game"
    /\ game.state = "mounted"
    /\ game.boxscore # NoData
    /\ game.game_state = "FINAL"

-----------------------------------------------------------------------------
(* Date navigation on the ScheduleScreen and the cache, under Spec *)

\* the url of the schedule of the date the ScheduleScreen shows
ShownUrl == BASE_URL \o "/schedule/" \o ToString(sched.current_date)

\* C27: the handlers of previous day, next day and today leave the cache as
\* it is; the fetch routine they schedule, when it finds an entry of the
\* shown date less than 30 s old, makes no network call, takes no time and
\* leaves the cache as it is, and otherwise changes no entry but that of
\* the shown date
C27_DateNavigationKeepsCache ==
    /\ [][ev'.kind \in {"prev_day", "next_day", "today"} =>
              /\ cache' = cache
              /\ workers' = Append(workers, Worker("schedule", "nav", now))
         ]_vars
    /\ [][Runs("schedule") /\ Head(workers).by = "nav" =>
              /\ Len(run'.reqs) = 1
              /\ run'.reqs[1].url = ShownUrl
              /\ \A u \in DOMAIN cache \ {ShownUrl} :
                     u \in DOMAIN cache' /\ cache'[u] = cache[u]
              /\ IF ShownUrl \in DOMAIN cache
                    /\ now - cache[ShownUrl][1] < 30
                 THEN /\ run'.reqs[1].outcome = "cached"
                      /\ cache' = cache
                      /\ now' = now
                 ELSE run'.reqs[1].outcome # "cached"
         ]_vars

\* the screen is back on today 18 s or more after it left, and its fetch
\* routine is served from the cache, beside the entry of the other date
C27_Witness ==
    /\ JustRan
    /\ run.screen = "schedule" /\ run.by = "nav"
    /\ run.reqs[1].outcome = "cached"
    /\ sched.current_date = Today
    /\ now >= 18
    /\ Cardinality(DOMAIN cache) = 2

-----------------------------------------------------------------------------
(* The range of the countdown, under Spec *)

\* C28: the countdown of the ScheduleScreen and that of the GameScreen are
\* between 0 and 30 in every reachable state, and a subtitle that shows a
\* countdown shows a value between 0 and 30
C28_CountdownInRange ==
    \A name \in {"schedule", "game"} :
        /\ ScreenOf(name).countdown \in 0..30
        /\ \/ ScreenOf(name).sub_title = << >>
           \/ \E k \in 0..30 : ScreenOf(name).sub_title = RefreshingIn(k)

\* a countdown tick at 0: the countdown goes back to 30
C28_Witness ==
    /\ ev.kind = "countdown"
    /\ ev.countdown = 0
    /\ ScreenOf(ev.screen).countdown = 30
    /\ ScreenOf(ev.screen).sub_title = RefreshingIn(30)

-----------------------------------------------------------------------------
(* The two timers of a screen, under Spec *)

\* C29: in every reachable state the refresh timer and the countdown timer
\* of a screen are both running or both not running, and both set or both
\* not set; a countdown tick runs on a screen whose refresh timer is
\* running, and a firing of the refresh timer on a screen whose countdown
\* timer is running
C29_TimersRunTogether ==
    /\ \A name \in {"schedule", "game"} :
           /\ ScreenOf(name).refresh_timer.active
                  <=> ScreenOf(name).countdown_timer.active
           /\ ScreenOf(name).refresh_timer.set
                  <=> ScreenOf(name).countdown_timer.set
    /\ ev.kind = "countdown" => ScreenOf(ev.screen).refresh_timer.active
    /\ ev.kind = "auto_refresh" => ScreenOf(ev.screen).countdown_timer.active

\* the GameScreen has been popped with both of its timers stopped, after a
\* countdown tick of its own, while both timers of the ScheduleScreen run
C29_Witness ==
    /\ ev.kind = "unmount" /\ ev.screen = "game"
    /\ game.refresh_timer.set /\ game.countdown_timer.set
    /\ ~game.refresh_timer.active /\ ~game.countdown_timer.active
    /\ game.countdown < 30
    /\ sched.refresh_timer.active /\ sched.countdown_timer.active

-----------------------------------------------------------------------------
(* One ttl for each cache key, under SpecMethods *)

\* the string s begins with the string p
HasPrefix(s, p) == Len(s) >= Len(p) /\ SubSeq(s, 1, Len(p)) = p

\* the url is that of /scoreboard/now or of /gamecenter/{id}/...
IsLiveUrl(url) ==
    url = Url("/scoreboard/now") \/ HasPrefix(url, Url("/gamecenter/"))

\* the url each method reaches
UrlOf ==
    [method \in Methods |->
        Method(method, << >>, 0, CHOOSE resp \in Responses : resp.ok, 0).url]

\* the ttl each method applies to the entry of its url
TtlOf ==
    [method \in Methods |->
        Method(method, << >>, 0, CHOOSE resp \in Responses : resp.ok, 0).ttl]

\* the methods that reach the same url apply the same ttl: 10 s to the url
\* of /scoreboard/now and of /gamecenter/{id}/..., 30 s to any other
OneTtlPerUrl ==
    /\ \A m1, m2 \in Methods : UrlOf[m1] = UrlOf[m2] => TtlOf[m1] = TtlOf[m2]
    /\ \A m \in Methods : TtlOf[m] = IF IsLiveUrl(UrlOf[m]) THEN 10 ELSE 30

\* C30: the methods that reach the same url apply the same ttl, 10 s when
\* the url is that of /scoreboard/now or of /gamecenter/{id}/... and 30 s
\* otherwise; a call is served from the cache only when the entry of its
\* url is younger than the ttl of every method that reaches that url, so an
\* entry of a 10 s url that is between 10 and 30 s old is never served
C30_OneTtlPerUrl ==
    /\ OneTtlPerUrl
    /\ last.method # "" =>
           /\ last.url = UrlOf[last.method]
           /\ last.ttl = TtlOf[last.method]
           /\ last.outcome = "cached" =>
                  \A m \in Methods : UrlOf[m] = last.url =>
                      last.at - EntryBefore[1][1] < TtlOf[m]
           /\ (/\ IsLiveUrl(last.url)
               /\ EntryBefore # << >>
               /\ last.at - EntryBefore[1][1] \in 10..29)
                  => last.outcome # "cached"

\* get_scoreboard found the entry of its url more than 10 and less than
\* 30 s old, and fetched again
C30_Witness ==
    /\ last.method = "get_scoreboard"
    /\ last.outcome = "fetched"
    /\ EntryBefore # << >>
    /\ last.at - EntryBefore[1][1] \in 11..29

====
